---- MODULE Spec2Model ----
(***************************************************************************)
(* ChatSphere realtime client: the WebSocketService connection manager     *)
(* (frontend/src/services/websocket.ts) and the ChatProvider store         *)
(* (frontend/src/contexts/ChatContext.tsx, newest revision).               *)
(***************************************************************************)
EXTENDS Integers, Sequences, FiniteSets, Bags, TLC

\* ------------------------------------------------------------------------
\* Bounds of the model
\* ------------------------------------------------------------------------
MaxSockets == 2
MaxTimers == 3
MaxManualTimers == 1
MaxClockTicks == 2
MaxSends == 2
MaxLog == 2
MaxInbound == 2
MaxWire == 4
MaxSelections == 3
MaxRest == 2
MaxUnread == 1
MaxList == 2

\* ------------------------------------------------------------------------
\* Program constants (websocket.ts)
\* ------------------------------------------------------------------------
maxReconnectAttempts == 5
reconnectDelay == 3000
MaxReconnectDelay == 30000
HeartbeatIntervalSec == 30
WatchdogSec == 45
NormalClosure == 1000
NoStatusRcvd == 1005
AbnormalClosure == 1006
InternalError == 1011
DedupWindowMs == 3000

Sockets == 1..MaxSockets
Null == 0
Off == 0 - 1

RECURSIVE GCD(_, _)
GCD(a, b) == IF b = 0 THEN a ELSE GCD(b, a % b)
\* granularity of the heartbeat clock: both heartbeat delays are multiples
TickSec == GCD(HeartbeatIntervalSec, WatchdogSec)

VARIABLES
    ws,                     \* this.ws: Null or a socket
    readyState,             \* readyState of every socket object ever created
    established,            \* socket completed its opening handshake
    pongDue,                \* a ping sent on the socket awaits its pong
    reconnectAttempts,
    isManuallyDisconnected,
    isConnecting,
    heartbeatInterval,      \* Off, or seconds until the next 30s tick
    heartbeatTimeout,       \* Off, or seconds until the 45s watchdog expires
    connectionTimeout,      \* the 10s connect timer is pending
    reconnectTimers,        \* pending setTimeout(connect) of handleReconnect
    manualTimers,           \* pending setTimeout(connect) of reconnect()
    token,                  \* localStorage holds access_token
    isConnected,            \* Store flag written by handleConnection
    messageHandlers,        \* this.messageHandlers, in registration order
    connectionHandlers,     \* this.connectionHandlers, in registration order
    faulty,                 \* the handlers that throw when they are invoked
    invoked,                \* the handlers the last callback invoked, in
                            \* order
    abnormalCloses,         \* close events that took the reconnect decision
                            \* since the last open or explicit call
    lastCode,               \* close code if the last step was a close event
    delay,                  \* ms of the timer handleReconnect set in the
                            \* handler that ran last, Null if it set none
    lastOp,                 \* the handler that ran last
    currentChat,            \* ChatState.currentChat (and currentChatRef)
    currentRoomRef,         \* currentRoomRef.current
    messages,               \* ChatState.messages
    conversations,          \* ChatState.conversations
    isLoading,              \* ChatState.isLoading
    error,                  \* ChatState.error
    typingUsers,            \* ChatState.typingUsers
    onlineUsers,            \* ChatState.onlineUsers
    rooms,                  \* ChatState.rooms
    wire,                   \* frames written to the socket, not yet read
    rest,                   \* REST calls in flight
    inbound,                \* message events on their way to onmessage
    srvLog,                 \* messages stored by the server
    srvUnread,              \* the server's unread counter per chat
    now,                    \* clock, ms
    sendSeq,                \* number of optimistic ids drawn
    selections,             \* the chats passed to setCurrentChat so far
    lastArg                 \* the chat the last handler was about

connVars == <<ws, readyState, established, pongDue, reconnectAttempts,
              isManuallyDisconnected, isConnecting, heartbeatInterval,
              heartbeatTimeout, connectionTimeout, reconnectTimers,
              manualTimers, token, isConnected, messageHandlers,
              connectionHandlers, faulty>>

chatVars == <<currentChat, currentRoomRef, messages, conversations, isLoading,
              error, typingUsers, onlineUsers, rooms, wire, rest, inbound,
              srvLog, srvUnread, now, sendSeq, selections, lastArg>>

vars == <<connVars, abnormalCloses, lastCode, delay, invoked, lastOp,
          chatVars>>

\* the handlers: ChatProvider registers handleMessage and handleConnection;
\* h1 stands for a handler of another component
ChatHandler == "ChatProvider"
Handlers == {ChatHandler, "h1"}
\* mark left in the record of a callback that an exception ended
Uncaught == "uncaught"

\* the service object and the Store flag as one value, threaded through the
\* sequential code of a handler
This ==
    [ws |-> ws, readyState |-> readyState, established |-> established,
     pongDue |-> pongDue, reconnectAttempts |-> reconnectAttempts,
     isManuallyDisconnected |-> isManuallyDisconnected,
     isConnecting |-> isConnecting, heartbeatInterval |-> heartbeatInterval,
     heartbeatTimeout |-> heartbeatTimeout,
     connectionTimeout |-> connectionTimeout,
     reconnectTimers |-> reconnectTimers, manualTimers |-> manualTimers,
     isConnected |-> isConnected, messageHandlers |-> messageHandlers,
     connectionHandlers |-> connectionHandlers, faulty |-> faulty,
     invoked |-> <<>>, delay |-> Null, overflow |-> FALSE]

CommitThis(c) ==
    /\ ~c.overflow
    /\ c.reconnectTimers <= MaxTimers
    /\ c.manualTimers <= MaxManualTimers
    /\ ws' = c.ws
    /\ readyState' = c.readyState
    /\ established' = c.established
    /\ pongDue' = c.pongDue
    /\ reconnectAttempts' = c.reconnectAttempts
    /\ isManuallyDisconnected' = c.isManuallyDisconnected
    /\ isConnecting' = c.isConnecting
    /\ heartbeatInterval' = c.heartbeatInterval
    /\ heartbeatTimeout' = c.heartbeatTimeout
    /\ connectionTimeout' = c.connectionTimeout
    /\ reconnectTimers' = c.reconnectTimers
    /\ manualTimers' = c.manualTimers
    /\ isConnected' = c.isConnected
    /\ messageHandlers' = c.messageHandlers
    /\ connectionHandlers' = c.connectionHandlers
    /\ faulty' = c.faulty
    /\ invoked' = c.invoked
    /\ delay' = c.delay

\* a step of the service that clears the typing indicators whenever it has
\* created a socket
Commit_ClearsTyping(c) ==
    /\ CommitThis(c)
    /\ typingUsers' = IF c.ws # ws /\ c.ws # Null THEN <<>> ELSE typingUsers
    /\ UNCHANGED <<currentChat, currentRoomRef, messages, conversations,
                   isLoading, error, onlineUsers, rooms, wire, rest,
                   inbound, srvLog, srvUnread, now, sendSeq, selections,
                   lastArg>>

\* a step of the service alone
Commit(c) ==
    /\ CommitThis(c)
    /\ UNCHANGED chatVars

\* ------------------------------------------------------------------------
\* WebSocketService helpers
\* ------------------------------------------------------------------------
IsLive(st) == st \in {"CONNECTING", "OPEN"}

\* WebSocket.close(): a live socket starts closing, others are unaffected
wsClose(c, s) ==
    IF IsLive(c.readyState[s])
    THEN [c EXCEPT !.readyState[s] = "CLOSING"]
    ELSE c

\* handleConnection registered by ChatProvider: SET_CONNECTION_STATUS
\* handlers.forEach(handler => { try { handler(x) } catch { log } }): every
\* handler of the list is invoked, in order; completed are those that
\* returned
forEachHandler_NoCatch(handlers, throwing) ==
    LET first == {i \in DOMAIN handlers : handlers[i] \in throwing}
        stop == IF first = {} THEN Len(handlers)
                ELSE CHOOSE i \in first : \A j \in first : i <= j
    IN [invoked |-> IF first = {} THEN handlers
                    ELSE Append(SubSeq(handlers, 1, stop), Uncaught),
        completed |-> {handlers[i] : i \in 1..stop} \ throwing]

forEachHandler(handlers, throwing) ==
    [invoked |-> handlers,
     completed |-> {handlers[i] : i \in DOMAIN handlers} \ throwing]

\* the provider's handleConnection sets the connection flag of the Store
notifyConnectionHandlers(c, connected) ==
    LET r == forEachHandler(c.connectionHandlers, c.faulty)
    IN [c EXCEPT !.isConnected = IF ChatHandler \in r.completed
                                 THEN connected ELSE @,
                 !.invoked = @ \o r.invoked]

clearConnectionTimeout(c) ==
    [c EXCEPT !.connectionTimeout = FALSE]

stopHeartbeat(c) ==
    [c EXCEPT !.heartbeatInterval = Off, !.heartbeatTimeout = Off]

resetHeartbeatTimeout(c) ==
    [c EXCEPT !.heartbeatTimeout = WatchdogSec]

startHeartbeat(c) ==
    resetHeartbeatTimeout(
        [stopHeartbeat(c) EXCEPT !.heartbeatInterval = HeartbeatIntervalSec])

sendHeartbeat(c) ==
    IF c.ws # Null /\ c.readyState[c.ws] = "OPEN"
    THEN [c EXCEPT !.pongDue[c.ws] = TRUE]
    ELSE c

cleanupConnection(c) ==
    LET c1 == IF c.ws # Null /\ c.readyState[c.ws] # "CLOSED"
              THEN wsClose(c, c.ws) ELSE c
    IN clearConnectionTimeout(stopHeartbeat(c1))

\* handleReconnect comparing with <= instead of <
\* backoff that doubles from the first attempt on
backoff_FromFirst(k) ==
    LET raw == reconnectDelay * 2 ^ k
    IN IF raw < MaxReconnectDelay THEN raw ELSE MaxReconnectDelay

\* Math.min(this.reconnectDelay * Math.pow(2, this.reconnectAttempts - 1),
\* 30000) for the attempt counter just incremented to k
backoff(k) ==
    LET raw == reconnectDelay * 2 ^ (k - 1)
    IN IF raw < MaxReconnectDelay THEN raw ELSE MaxReconnectDelay

handleReconnect_OffByOne(c) ==
    IF c.reconnectAttempts <= maxReconnectAttempts
    THEN [c EXCEPT !.reconnectAttempts = @ + 1, !.reconnectTimers = @ + 1,
                   !.delay = backoff(c.reconnectAttempts + 1)]
    ELSE notifyConnectionHandlers(c, FALSE)

handleReconnect(c) ==
    IF c.reconnectAttempts < maxReconnectAttempts
    THEN [c EXCEPT !.reconnectAttempts = @ + 1, !.reconnectTimers = @ + 1,
                   !.delay = backoff(c.reconnectAttempts + 1)]
    ELSE notifyConnectionHandlers(c, FALSE)

handleConnectionError(c) ==
    LET c1 == notifyConnectionHandlers(
                  clearConnectionTimeout(stopHeartbeat(c)), FALSE)
    IN IF ~c1.isManuallyDisconnected THEN handleReconnect(c1) ELSE c1

\* new WebSocket(url): the socket object takes the lowest slot whose previous
\* occupant is CLOSED (a closed socket delivers no further event)
newWebSocket(c) ==
    IF \E s \in Sockets : c.readyState[s] = "CLOSED"
    THEN LET s == CHOOSE x \in Sockets :
                     /\ c.readyState[x] = "CLOSED"
                     /\ \A y \in Sockets : c.readyState[y] = "CLOSED" => x <= y
         IN [c EXCEPT !.ws = s, !.readyState[s] = "CONNECTING",
                      !.established[s] = FALSE, !.pongDue[s] = FALSE]
    ELSE [c EXCEPT !.overflow = TRUE]

\* connect() without the "already OPEN" early return
connect_NoOpenGuard(c, tok) ==
    IF c.isConnecting \/ (c.ws # Null /\ c.readyState[c.ws] = "CONNECTING")
    THEN c
    ELSE IF ~tok
    THEN notifyConnectionHandlers(c, FALSE)
    ELSE LET c1 == [c EXCEPT !.isConnecting = TRUE,
                             !.isManuallyDisconnected = FALSE]
             c2 == newWebSocket(cleanupConnection(c1))
         IN [c2 EXCEPT !.connectionTimeout = TRUE]


\* connect() treating a missing credential as a connection error
connect_TokenRetry(c, tok) ==
    IF c.isConnecting \/ (c.ws # Null /\ c.readyState[c.ws] = "CONNECTING")
    THEN c
    ELSE IF c.ws # Null /\ c.readyState[c.ws] = "OPEN"
    THEN c
    ELSE IF ~tok
    THEN handleConnectionError(c)
    ELSE LET c1 == [c EXCEPT !.isConnecting = TRUE,
                             !.isManuallyDisconnected = FALSE]
             c2 == newWebSocket(cleanupConnection(c1))
         IN [c2 EXCEPT !.connectionTimeout = TRUE]

connect(c, tok) ==
    IF c.isConnecting \/ (c.ws # Null /\ c.readyState[c.ws] = "CONNECTING")
    THEN c
    ELSE IF c.ws # Null /\ c.readyState[c.ws] = "OPEN"
    THEN c
    ELSE IF ~tok
    THEN notifyConnectionHandlers(c, FALSE)
    ELSE LET c1 == [c EXCEPT !.isConnecting = TRUE,
                             !.isManuallyDisconnected = FALSE]
             c2 == newWebSocket(cleanupConnection(c1))
         IN [c2 EXCEPT !.connectionTimeout = TRUE]


\* onopen keeping the attempts used so far
onopen_NoReset(c) ==
    LET c1 == [c EXCEPT !.isConnecting = FALSE]
    IN notifyConnectionHandlers(
           startHeartbeat(clearConnectionTimeout(c1)), TRUE)

onopen(c) ==
    LET c1 == [c EXCEPT !.isConnecting = FALSE, !.reconnectAttempts = 0]
    IN notifyConnectionHandlers(
           startHeartbeat(clearConnectionTimeout(c1)), TRUE)

onclose(c, code) ==
    LET c1 == notifyConnectionHandlers(
                  clearConnectionTimeout(
                      stopHeartbeat([c EXCEPT !.isConnecting = FALSE])),
                  FALSE)
    IN IF ~c1.isManuallyDisconnected /\ code # NormalClosure
       THEN handleReconnect(c1) ELSE c1

onerror(c) ==
    handleConnectionError([c EXCEPT !.isConnecting = FALSE])


\* disconnect() also resets the attempt counter
disconnect_ResetsAttempts(c) ==
    LET c1 == cleanupConnection([c EXCEPT !.isManuallyDisconnected = TRUE,
                                          !.reconnectAttempts = 0])
    IN notifyConnectionHandlers([c1 EXCEPT !.ws = Null], FALSE)

disconnect(c) ==
    LET c1 == cleanupConnection([c EXCEPT !.isManuallyDisconnected = TRUE])
    IN notifyConnectionHandlers([c1 EXCEPT !.ws = Null], FALSE)

reconnect(c) ==
    LET c1 == cleanupConnection(
                  [c EXCEPT !.reconnectAttempts = 0,
                            !.isManuallyDisconnected = FALSE])
    IN [c1 EXCEPT !.ws = Null, !.manualTimers = @ + 1]

\* ------------------------------------------------------------------------
\* Actions of the connection manager
\* ------------------------------------------------------------------------
\* a close event with this code is abnormal when onclose takes it to
\* handleReconnect (not manual, not 1000); the count stops above the budget
CountClose(code) ==
    IF ~isManuallyDisconnected /\ code # NormalClosure
    THEN IF abnormalCloses <= maxReconnectAttempts
         THEN abnormalCloses + 1 ELSE abnormalCloses
    ELSE abnormalCloses

Connect ==
    /\ Commit(connect(This, token))
    /\ lastOp' = "connect"
    /\ abnormalCloses' = 0
    /\ lastCode' = Null
    /\ UNCHANGED token

Disconnect ==
    /\ Commit(disconnect(This))
    /\ lastOp' = "disconnect"
    /\ UNCHANGED abnormalCloses
    /\ lastCode' = Null
    /\ UNCHANGED token

Reconnect ==
    /\ Commit(reconnect(This))
    /\ lastOp' = "reconnect"
    /\ abnormalCloses' = 0
    /\ lastCode' = Null
    /\ UNCHANGED token

\* setTimeout(() => this.connect(), delay) of handleReconnect fires
ReconnectTimerFires ==
    /\ reconnectTimers > 0
    /\ Commit(connect([This EXCEPT !.reconnectTimers = @ - 1], token))
    /\ lastOp' = "reconnectTimer"
    /\ UNCHANGED abnormalCloses
    /\ lastCode' = Null
    /\ UNCHANGED token

\* setTimeout(() => this.connect(), 1000) of reconnect() fires
ManualTimerFires ==
    /\ manualTimers > 0
    /\ Commit(connect([This EXCEPT !.manualTimers = @ - 1], token))
    /\ lastOp' = "manualTimer"
    /\ UNCHANGED abnormalCloses
    /\ lastCode' = Null
    /\ UNCHANGED token

\* the 10s connect timer fires
ConnectionTimeoutFires ==
    /\ connectionTimeout
    /\ LET c0 == [This EXCEPT !.connectionTimeout = FALSE]
       IN Commit(IF c0.ws # Null /\ c0.readyState[c0.ws] = "CONNECTING"
                 THEN handleConnectionError(wsClose(c0, c0.ws))
                 ELSE c0)
    /\ lastOp' = "connectionTimeout"
    /\ UNCHANGED abnormalCloses
    /\ lastCode' = Null
    /\ UNCHANGED token

\* the opening handshake of a socket completes
SocketOpens(s) ==
    /\ readyState[s] = "CONNECTING"
    /\ Commit(onopen([This EXCEPT !.readyState[s] = "OPEN",
                                  !.established[s] = TRUE]))
    /\ lastOp' = "onopen"
    /\ abnormalCloses' = 0
    /\ lastCode' = Null
    /\ UNCHANGED token

\* the connection of a socket fails: one task sets CLOSED, fires error, then
\* fires close with 1006
SocketFails(s) ==
    /\ readyState[s] \in {"CONNECTING", "OPEN", "CLOSING"}
    /\ Commit(onclose(onerror([This EXCEPT !.readyState[s] = "CLOSED",
                                           !.established[s] = FALSE,
                                           !.pongDue[s] = FALSE]),
                      AbnormalClosure))
    /\ lastOp' = "onerror"
    /\ abnormalCloses' = CountClose(AbnormalClosure)
    /\ lastCode' = AbnormalClosure
    /\ UNCHANGED token

\* a socket closes without an error event: the server closes an open socket,
\* or the closing handshake started by close() ends
SocketCloses(s, code) ==
    /\ \/ readyState[s] = "OPEN" /\ code \in {NormalClosure, InternalError}
       \/ /\ readyState[s] = "CLOSING" /\ established[s]
          /\ code \in {NoStatusRcvd, AbnormalClosure}
    /\ Commit(onclose([This EXCEPT !.readyState[s] = "CLOSED",
                                   !.established[s] = FALSE,
                                   !.pongDue[s] = FALSE], code))
    /\ lastOp' = "onclose"
    /\ abnormalCloses' = CountClose(code)
    /\ lastCode' = code
    /\ UNCHANGED token

\* a pong frame arrives on a socket (onmessage, type pong)
Pong(s) ==
    /\ readyState[s] \in {"OPEN", "CLOSING"}
    /\ pongDue[s]
    /\ Commit(resetHeartbeatTimeout([This EXCEPT !.pongDue[s] = FALSE]))
    /\ lastOp' = "pong"
    /\ UNCHANGED abnormalCloses
    /\ lastCode' = Null
    /\ UNCHANGED token

\* TickSec seconds pass; a timer that is due fires before time moves on
Tick ==
    /\ heartbeatInterval # 0
    /\ heartbeatTimeout # 0
    /\ heartbeatInterval # Off \/ heartbeatTimeout # Off
    /\ heartbeatInterval' =
           IF heartbeatInterval = Off THEN Off ELSE heartbeatInterval - TickSec
    /\ heartbeatTimeout' =
           IF heartbeatTimeout = Off THEN Off ELSE heartbeatTimeout - TickSec
    /\ lastOp' = "tick"
    /\ UNCHANGED abnormalCloses
    /\ UNCHANGED <<lastCode, delay>>
    /\ UNCHANGED <<ws, readyState, established, pongDue, reconnectAttempts,
                   isManuallyDisconnected, isConnecting, connectionTimeout,
                   reconnectTimers, manualTimers, token, isConnected,
                   messageHandlers, connectionHandlers, faulty>>
    /\ invoked' = <<>>
    /\ UNCHANGED chatVars

\* the 30s interval fires: sendHeartbeat, and the interval repeats
HeartbeatFires ==
    /\ heartbeatInterval = 0
    /\ Commit(sendHeartbeat(
           [This EXCEPT !.heartbeatInterval = HeartbeatIntervalSec]))
    /\ lastOp' = "heartbeat"
    /\ UNCHANGED abnormalCloses
    /\ lastCode' = Null
    /\ UNCHANGED token

\* the 45s watchdog fires: close the current socket
WatchdogFires ==
    /\ heartbeatTimeout = 0
    /\ LET c0 == [This EXCEPT !.heartbeatTimeout = Off]
       IN Commit(IF c0.ws # Null THEN wsClose(c0, c0.ws) ELSE c0)
    /\ lastOp' = "watchdog"
    /\ UNCHANGED abnormalCloses
    /\ lastCode' = Null
    /\ UNCHANGED token

\* login stores the credential, logout removes it (AuthContext)
SetToken(b) ==
    /\ token # b
    /\ token' = b
    /\ lastOp' = "token"
    /\ UNCHANGED abnormalCloses
    /\ UNCHANGED <<lastCode, delay>>
    /\ UNCHANGED <<ws, readyState, established, pongDue, reconnectAttempts,
                   isManuallyDisconnected, isConnecting, heartbeatInterval,
                   heartbeatTimeout, connectionTimeout, reconnectTimers,
                   manualTimers, isConnected, messageHandlers,
                   connectionHandlers, faulty>>
    /\ invoked' = <<>>
    /\ UNCHANGED chatVars

\* ------------------------------------------------------------------------
\* ChatProvider: values
\* ------------------------------------------------------------------------
Nil == "nil"
Me == "A"
Users == {"A", "B", "C"}
Rooms == {"R1", "R2"}
Groups == {"G1"}
Contents == {"hi", "yo"}

ChatRef(t, i) == [type |-> t, id |-> i]
NoChat == ChatRef("none", Nil)

Chats ==
    {ChatRef("room", r) : r \in Rooms}
        \cup {ChatRef("private", u) : u \in Users \ {Me}}
        \cup {ChatRef("group", g) : g \in Groups}

\* ids: `temp_${Date.now()}_${Math.random()}` and the ids issued by the server
TempId(n) == [kind |-> "temp_", n |-> n]
ServerId(n) == [kind |-> "m", n |-> n]
startsWithTemp(id) == id.kind = "temp_"

ClockStepMs == DedupWindowMs \div 2

Abs(x) == IF x < 0 THEN 0 - x ELSE x

\* a || b on optional strings
OrElse(a, b) == IF a # Nil THEN a ELSE b

\* the ChatState of the reducer together with the refs and the two
\* collaborators (socket, REST client) a handler writes to
initialState ==
    [currentChat |-> NoChat, messages |-> <<>>, conversations |-> {},
     isLoading |-> FALSE, error |-> Nil, typingUsers |-> <<>>,
     onlineUsers |-> {},
     rooms |-> {},
     currentRoomRef |-> Nil, wire |-> <<>>, rest |-> EmptyBag]

Store ==
    [currentChat |-> currentChat, messages |-> messages,
     conversations |-> conversations, isLoading |-> isLoading,
     error |-> error, typingUsers |-> typingUsers,
     onlineUsers |-> onlineUsers,
     rooms |-> rooms,
     currentRoomRef |-> currentRoomRef, wire |-> wire, rest |-> rest]

CommitStore(st) ==
    /\ Len(st.wire) <= MaxWire
    /\ BagCardinality(st.rest) <= MaxRest
    /\ currentChat' = st.currentChat
    /\ messages' = st.messages
    /\ conversations' = st.conversations
    /\ isLoading' = st.isLoading
    /\ error' = st.error
    /\ typingUsers' = st.typingUsers
    /\ onlineUsers' = st.onlineUsers
    /\ rooms' = st.rooms
    /\ currentRoomRef' = st.currentRoomRef
    /\ wire' = st.wire
    /\ rest' = st.rest

\* ------------------------------------------------------------------------
\* chatReducer
\* ------------------------------------------------------------------------
isDuplicate(msg, payload) ==
    \/ msg.id = payload.id
    \/ /\ msg.content = payload.content
       /\ msg.from_user_id = payload.from_user_id
       /\ Abs(msg.created_at - payload.created_at) < DedupWindowMs

isTempOf(msg, payload) ==
    /\ startsWithTemp(msg.id)
    /\ msg.content = payload.content
    /\ msg.from_user_id = payload.from_user_id

\* ADD_MESSAGE putting the new entry in front of the list
ADD_MESSAGE_Prepend(state, payload) ==
    IF \E i \in 1..Len(state.messages) :
           isDuplicate(state.messages[i], payload)
    THEN state
    ELSE LET filteredMessages ==
                 IF ~startsWithTemp(payload.id)
                 THEN SelectSeq(state.messages,
                                LAMBDA m : ~isTempOf(m, payload))
                 ELSE state.messages
         IN [state EXCEPT !.messages = <<payload>> \o filteredMessages]

\* ADD_MESSAGE without the duplicate test
ADD_MESSAGE_NoDedup(state, payload) ==
    LET filteredMessages ==
            IF ~startsWithTemp(payload.id)
            THEN SelectSeq(state.messages, LAMBDA m : ~isTempOf(m, payload))
            ELSE state.messages
    IN [state EXCEPT !.messages = Append(filteredMessages, payload)]


\* ADD_MESSAGE keeping the optimistic entries when a confirmed one is added
ADD_MESSAGE_KeepTemp(state, payload) ==
    IF \E i \in 1..Len(state.messages) :
           isDuplicate(state.messages[i], payload)
    THEN state
    ELSE [state EXCEPT !.messages = Append(state.messages, payload)]

ADD_MESSAGE(state, payload) ==
    IF \E i \in 1..Len(state.messages) :
           isDuplicate(state.messages[i], payload)
    THEN state
    ELSE LET filteredMessages ==
                 IF ~startsWithTemp(payload.id)
                 THEN SelectSeq(state.messages,
                                LAMBDA m : ~isTempOf(m, payload))
                 ELSE state.messages
         IN [state EXCEPT !.messages = Append(filteredMessages, payload)]


\* reducer case matching the conversation on chat_type only
MARK_CONVERSATION_READ_TypeOnly(state, payload) ==
    [state EXCEPT !.conversations =
        {IF conv.chat_type = payload.chatType
         THEN [conv EXCEPT !.unread_count = 0]
         ELSE conv : conv \in state.conversations}]


\* the acknowledgment zeroes every conversation of the list
MARK_CONVERSATION_READ_All(state, payload) ==
    [state EXCEPT !.conversations =
        {[conv EXCEPT !.unread_count = 0] : conv \in state.conversations}]

MARK_CONVERSATION_READ(state, payload) ==
    [state EXCEPT !.conversations =
        {IF conv.chat_type = payload.chatType /\ conv.chat_id = payload.chatId
         THEN [conv EXCEPT !.unread_count = 0]
         ELSE conv : conv \in state.conversations}]


\* ADD_TYPING_USER looking for an entry with the same chatType as well
ADD_TYPING_USER_KeyWithType(state, payload) ==
    IF \E i \in 1..Len(state.typingUsers) :
           state.typingUsers[i] = payload
    THEN state
    ELSE [state EXCEPT !.typingUsers = Append(@, payload)]

ADD_TYPING_USER(state, payload) ==
    IF \E i \in 1..Len(state.typingUsers) :
           /\ state.typingUsers[i].userId = payload.userId
           /\ state.typingUsers[i].chatId = payload.chatId
    THEN state
    ELSE [state EXCEPT !.typingUsers = Append(@, payload)]

REMOVE_TYPING_USER(state, payload) ==
    [state EXCEPT !.typingUsers =
        SelectSeq(@, LAMBDA user : ~(/\ user.userId = payload.userId
                                     /\ user.chatId = payload.chatId))]

chatReducer(state, action) ==
    CASE action.type = "SET_LOADING" ->
             [state EXCEPT !.isLoading = action.payload]
      [] action.type = "SET_ERROR" ->
             [state EXCEPT !.error = action.payload]
      [] action.type = "SET_CONVERSATIONS" ->
             [state EXCEPT !.conversations = action.payload]
      [] action.type = "SET_CURRENT_CHAT" ->
             [state EXCEPT !.currentChat = action.payload]
      [] action.type = "SET_MESSAGES" ->
             [state EXCEPT !.messages = action.payload]
      [] action.type = "ADD_MESSAGE" ->
             ADD_MESSAGE(state, action.payload)
      [] action.type = "SET_ONLINE_USERS" ->
             [state EXCEPT !.onlineUsers = action.payload]
      [] action.type = "SET_ROOMS" ->
             [state EXCEPT !.rooms = action.payload]
      [] action.type = "ADD_TYPING_USER" ->
             ADD_TYPING_USER(state, action.payload)
      [] action.type = "REMOVE_TYPING_USER" ->
             REMOVE_TYPING_USER(state, action.payload)
      [] action.type = "CLEAR_TYPING_USERS" ->
             [state EXCEPT !.typingUsers = <<>>]
      [] action.type = "MARK_CONVERSATION_READ" ->
             MARK_CONVERSATION_READ(state, action.payload)
      [] OTHER -> state

dispatch(st, type, payload) ==
    chatReducer(st, [type |-> type, payload |-> payload])

\* ------------------------------------------------------------------------
\* ChatProvider callbacks
\* ------------------------------------------------------------------------
\* a call of the REST client: the request is in flight until it returns
apiCall(st, op, chatType, chatId) ==
    [st EXCEPT !.rest = @ (+) SetToBag({[op |-> op, chatType |-> chatType,
                                         chatId |-> chatId, phase |-> "sent",
                                         convs |-> {}, msgs |-> <<>>]})]

\* websocketService.sendMessage / joinRoom / leaveRoom: written only to an
\* OPEN socket
wsSend(st, frame) ==
    IF ws # Null /\ readyState[ws] = "OPEN"
    THEN [st EXCEPT !.wire = Append(@, frame)]
    ELSE st

Frame(type, chatType, chatId, content, seq) ==
    [type |-> type, chat_type |-> chatType, chat_id |-> chatId,
     content |-> content, seq |-> seq]

wsJoinRoom(st, roomId) == wsSend(st, Frame("join_room", Nil, roomId, Nil, 0))
wsLeaveRoom(st, roomId) == wsSend(st, Frame("leave_room", Nil, roomId, Nil, 0))

loadConversations(st) ==
    apiCall(dispatch(st, "SET_LOADING", TRUE), "getConversations", Nil, Nil)

loadMessages(st, chatType, chatId) ==
    apiCall(dispatch(st, "SET_LOADING", TRUE), "getMessages", chatType, chatId)

\* markConversationAsRead dispatching before the REST call
markConversationAsRead_Optimistic(st, chatType, chatId) ==
    apiCall(dispatch(st, "MARK_CONVERSATION_READ",
                     [chatType |-> chatType, chatId |-> chatId]),
            "markConversationAsRead", chatType, chatId)

markConversationAsRead(st, chatType, chatId) ==
    apiCall(st, "markConversationAsRead", chatType, chatId)

\* loadRooms, loadOnlineUsers, getRoomOnlineCount up to their await
loadRooms(st) == apiCall(st, "getRooms", Nil, Nil)

loadOnlineUsers(st) == apiCall(st, "getOnlineUsers", Nil, Nil)

getRoomOnlineCount(st, roomId) ==
    apiCall(st, "getRoomOnlineCount", Nil, roomId)

\* what GET /chat/rooms and GET /chat/online-users answer
ServerRooms == Rooms

ServerOnline == Users \ {Me}

\* loadMessages that empties the list when the call fails
afterAwait_Rollback(st, r) ==
    CASE r.op = "getConversations" ->
             dispatch(IF r.phase = "ok"
                      THEN dispatch(st, "SET_CONVERSATIONS", r.convs)
                      ELSE dispatch(st, "SET_ERROR", r.op),
                      "SET_LOADING", FALSE)
      [] r.op = "getMessages" ->
             dispatch(IF r.phase = "ok"
                      THEN dispatch(st, "SET_MESSAGES", r.msgs)
                      ELSE dispatch(dispatch(st, "SET_MESSAGES", <<>>),
                                    "SET_ERROR", r.op),
                      "SET_LOADING", FALSE)
      [] r.op = "markConversationAsRead" ->
             IF r.phase = "ok"
             THEN dispatch(st, "MARK_CONVERSATION_READ",
                           [chatType |-> r.chatType, chatId |-> r.chatId])
             ELSE st
      [] r.op = "getRooms" ->
             IF r.phase = "ok"
             THEN dispatch(st, "SET_ROOMS", ServerRooms)
             ELSE dispatch(st, "SET_ERROR", r.op)
      [] r.op = "getOnlineUsers" ->
             IF r.phase = "ok"
             THEN dispatch(st, "SET_ONLINE_USERS", ServerOnline)
             ELSE dispatch(st, "SET_ERROR", r.op)
      [] OTHER -> st

\* the code after the await of each REST call, for a returned request r
afterAwait(st, r) ==
    CASE r.op = "getConversations" ->
             dispatch(IF r.phase = "ok"
                      THEN dispatch(st, "SET_CONVERSATIONS", r.convs)
                      ELSE dispatch(st, "SET_ERROR", r.op),
                      "SET_LOADING", FALSE)
      [] r.op = "getMessages" ->
             dispatch(IF r.phase = "ok"
                      THEN dispatch(st, "SET_MESSAGES", r.msgs)
                      ELSE dispatch(st, "SET_ERROR", r.op),
                      "SET_LOADING", FALSE)
      [] r.op = "markConversationAsRead" ->
             IF r.phase = "ok"
             THEN dispatch(st, "MARK_CONVERSATION_READ",
                           [chatType |-> r.chatType, chatId |-> r.chatId])
             ELSE st
      [] r.op = "getRooms" ->
             IF r.phase = "ok"
             THEN dispatch(st, "SET_ROOMS", ServerRooms)
             ELSE dispatch(st, "SET_ERROR", r.op)
      [] r.op = "getOnlineUsers" ->
             IF r.phase = "ok"
             THEN dispatch(st, "SET_ONLINE_USERS", ServerOnline)
             ELSE dispatch(st, "SET_ERROR", r.op)
      [] OTHER -> st

\* routing filter matching on the id only, not on the kind of the message
shouldAddMessage_NoKind(chat, data) ==
    IF chat = NoChat THEN FALSE
    ELSE IF chat.type = "room"
    THEN chat.id = data.room_id \/ chat.id = data.chat_id
    ELSE IF chat.type = "private"
    THEN \/ chat.id = data.to_user_id
         \/ chat.id = data.from_user_id
         \/ chat.id = data.chat_id
    ELSE IF chat.type = "group"
    THEN chat.id = data.group_id \/ chat.id = data.chat_id
    ELSE FALSE

shouldAddMessage(chat, data) ==
    IF chat = NoChat THEN FALSE
    ELSE IF chat.type = "room" /\ data.chat_type = "room"
    THEN chat.id = data.room_id \/ chat.id = data.chat_id
    ELSE IF chat.type = "private" /\ data.chat_type = "private"
    THEN \/ chat.id = data.to_user_id
         \/ chat.id = data.from_user_id
         \/ chat.id = data.chat_id
    ELSE IF chat.type = "group" /\ data.chat_type = "group"
    THEN chat.id = data.group_id \/ chat.id = data.chat_id
    ELSE FALSE

newMessage(data) ==
    [id |-> data.id, from_user_id |-> data.from_user_id,
     content |-> data.content, created_at |-> data.created_at]

\* handleMessage, case 'message'
handleMessage(st, data) ==
    LET chat_id == IF data.chat_type = "room"
                   THEN OrElse(data.room_id, data.chat_id)
                   ELSE data.chat_id
        s1 == IF shouldAddMessage(st.currentChat, data)
              THEN LET s2 == dispatch(st, "ADD_MESSAGE", newMessage(data))
                   IN IF data.chat_type # Nil /\ chat_id # Nil
                      THEN markConversationAsRead(s2, data.chat_type, chat_id)
                      ELSE s2
              ELSE st
    IN loadConversations(s1)


\* handleMessage, case 'typing'
handleTyping(st, data) ==
    LET payload == [userId |-> data.user_id, chatId |-> data.chat_id,
                    chatType |-> OrElse(data.chat_type, "room")]
    IN IF data.is_typing
       THEN dispatch(st, "ADD_TYPING_USER", payload)
       ELSE dispatch(st, "REMOVE_TYPING_USER", payload)


\* a frame without a data member
NoData == [absent |-> TRUE]

\* a JSON array of user names
JsonArray(items) == [items |-> items]

\* handleMessage: the switch on message.type. A handler that reads a field
\* of a missing data object throws before it dispatches anything.
handleFrame(st, message) ==
    CASE message.type = "message" ->
             IF message.data = NoData THEN st
             ELSE handleMessage(st, message.data)
      [] message.type = "online_users" ->
             dispatch(st, "SET_ONLINE_USERS",
                      IF message.data = NoData THEN Nil
                      ELSE message.data.items)
      [] message.type \in {"user_joined", "user_left",
                           "conversation_updated"} ->
             loadConversations(st)
      [] message.type = "typing" ->
             IF message.data = NoData THEN st
             ELSE handleTyping(st, message.data)
      [] message.type = "error" ->
             IF message.data = NoData THEN st
             ELSE dispatch(st, "SET_ERROR", message.data.message)
      [] OTHER -> st

\* notifyMessageHandlers: each handler runs inside try/catch
notifyMessageHandlers(c, st, message) ==
    LET r == forEachHandler(c.messageHandlers, c.faulty)
    IN [c |-> [c EXCEPT !.invoked = @ \o r.invoked],
        st |-> IF ChatHandler \in r.completed
               THEN handleFrame(st, message) ELSE st]

\* the type tags handleMessage and onmessage have a case for
KnownTypes ==
    {"connection_established", "message", "online_users", "user_joined",
     "user_left", "typing", "conversation_updated", "error", "pong"}

\* which branch of onmessage ran: the catch that logs the parse failure, the
\* default case that logs the unknown type, or a case of its own
reportOf(raw) ==
    IF ~raw.wellFormed THEN "onmessage.catch"
    ELSE IF raw.type \notin KnownTypes THEN "onmessage.default"
    ELSE "onmessage"

\* onmessage without its try/catch: a parse failure ends up in the error
\* handling of the connection
onmessage_NoCatch(c, st, raw) ==
    IF ~raw.wellFormed
    THEN [c |-> handleConnectionError(c), st |-> st]
    ELSE IF raw.type = "pong"
    THEN [c |-> resetHeartbeatTimeout(c), st |-> st]
    ELSE notifyMessageHandlers(c, st, raw)

\* onmessage that treats an error event of the server as a connection error
onmessage_ErrorDisconnects(c, st, raw) ==
    IF ~raw.wellFormed
    THEN [c |-> c, st |-> st]
    ELSE IF raw.type = "pong"
    THEN [c |-> resetHeartbeatTimeout(c), st |-> st]
    ELSE IF raw.type = "error"
    THEN notifyMessageHandlers(handleConnectionError(c), st, raw)
    ELSE notifyMessageHandlers(c, st, raw)

\* ws.onmessage for the text of a frame: JSON.parse throws on malformed text
\* and the catch logs it; a pong resets the watchdog; anything else goes to
\* the handlers
onmessage(c, st, raw) ==
    IF ~raw.wellFormed
    THEN [c |-> c, st |-> st]
    ELSE IF raw.type = "pong"
    THEN [c |-> resetHeartbeatTimeout(c), st |-> st]
    ELSE notifyMessageHandlers(c, st, raw)

\* the effect that mirrors state.currentChat into currentRoomRef
currentRoomEffect(st) ==
    [st EXCEPT !.currentRoomRef =
        IF st.currentChat.type = "room" THEN st.currentChat.id ELSE Nil]

\* setCurrentChat that leaves the joined room even when it is selected again
setCurrentChat_LeaveSame(st, chat) ==
    LET previousRoom == st.currentRoomRef
        s1 == IF chat.type = "room"
              THEN LET s0 == IF previousRoom # Nil
                             THEN wsLeaveRoom(st, previousRoom) ELSE st
                   IN [wsJoinRoom(s0, chat.id)
                           EXCEPT !.currentRoomRef = chat.id]
              ELSE IF previousRoom # Nil
              THEN [wsLeaveRoom(st, previousRoom)
                        EXCEPT !.currentRoomRef = Nil]
              ELSE st
        s2 == dispatch(s1, "SET_CURRENT_CHAT", chat)
    IN currentRoomEffect(IF chat # NoChat
                         THEN loadMessages(s2, chat.type, chat.id) ELSE s2)

\* setCurrentChat that joins the new room without leaving the previous one
setCurrentChat_NoLeave(st, chat) ==
    LET s1 == IF chat.type = "room"
              THEN [wsJoinRoom(st, chat.id) EXCEPT !.currentRoomRef = chat.id]
              ELSE IF st.currentRoomRef # Nil
              THEN [wsLeaveRoom(st, st.currentRoomRef)
                        EXCEPT !.currentRoomRef = Nil]
              ELSE st
        s2 == dispatch(s1, "SET_CURRENT_CHAT", chat)
    IN currentRoomEffect(IF chat # NoChat
                         THEN loadMessages(s2, chat.type, chat.id) ELSE s2)

setCurrentChat(st, chat) ==
    LET previousRoom == st.currentRoomRef
        s1 == IF chat.type = "room"
              THEN LET s0 == IF previousRoom # Nil /\ previousRoom # chat.id
                             THEN wsLeaveRoom(st, previousRoom) ELSE st
                   IN [wsJoinRoom(s0, chat.id)
                           EXCEPT !.currentRoomRef = chat.id]
              ELSE IF previousRoom # Nil
              THEN [wsLeaveRoom(st, previousRoom)
                        EXCEPT !.currentRoomRef = Nil]
              ELSE st
        s2 == dispatch(s1, "SET_CURRENT_CHAT", chat)
    IN currentRoomEffect(IF chat # NoChat
                         THEN loadMessages(s2, chat.type, chat.id) ELSE s2)

\* joinRoom / leaveRoom of the provider, for manual calls
joinRoom(st, roomId) ==
    [wsJoinRoom(st, roomId) EXCEPT !.currentRoomRef = roomId]

leaveRoom(st, roomId) ==
    LET s1 == wsLeaveRoom(st, roomId)
    IN IF s1.currentRoomRef = roomId
       THEN [s1 EXCEPT !.currentRoomRef = Nil]
       ELSE s1

\* ConversationSidebar.handleRoomClick up to its await: joinRoom, then
\* setCurrentChat, then the mark-read if the room shows unread messages
handleRoomClick(st, roomId) ==
    LET s1 == setCurrentChat(joinRoom(st, roomId), ChatRef("room", roomId))
    IN IF \E c \in s1.conversations :
              /\ c.chat_type = "room" /\ c.chat_id = roomId
              /\ c.unread_count > 0
       THEN markConversationAsRead(s1, "room", roomId)
       ELSE s1

sendMessage(st, content, n, at) ==
    IF st.currentChat = NoChat
    THEN st
    ELSE LET optimisticMessage ==
                 [id |-> TempId(n), from_user_id |-> Me,
                  content |-> content, created_at |-> at]
         IN wsSend(dispatch(st, "ADD_MESSAGE", optimisticMessage),
                   Frame("send_message", st.currentChat.type,
                         st.currentChat.id, content, n))

\* ------------------------------------------------------------------------
\* The server side of the socket and of the REST interface
\* ------------------------------------------------------------------------
Shapes == {"typed", "chat_id", "both"}

\* the `message` event pushed for a message stored in a chat; the chat is
\* named by its typed field (room_id, to_user_id, group_id), by chat_id, or
\* by both. `about` and `seq` are not read by the client: the chat as this
\* user sees it, and the send that produced the message.
MessageEvent(id, from, content, at, chat, shape, seq) ==
    LET typed == shape \in {"typed", "both"}
    IN [id |-> id, from_user_id |-> from, content |-> content,
        created_at |-> at, chat_type |-> chat.type,
        room_id |-> IF typed /\ chat.type = "room" THEN chat.id ELSE Nil,
        to_user_id |-> IF typed /\ chat.type = "private"
                       THEN (IF from = Me THEN chat.id ELSE Me) ELSE Nil,
        group_id |-> IF typed /\ chat.type = "group" THEN chat.id ELSE Nil,
        chat_id |-> IF shape \in {"chat_id", "both"} THEN chat.id ELSE Nil,
        about |-> chat, seq |-> seq]

\* GET /chat/messages/{chat_type}/{chat_id}
HistoryOf(chat) ==
    LET stored == SelectSeq(srvLog, LAMBDA e : e.about = chat)
    IN [i \in 1..Len(stored) |-> newMessage(stored[i])]

\* GET /chat/conversations
\* the last stored message of a chat, as the conversation list shows it
LastMessageOf(log, c) ==
    LET stored == SelectSeq(log, LAMBDA e : e.about = c)
    IN IF stored = <<>> THEN Nil ELSE stored[Len(stored)].content

ConversationsOf(log, unread) ==
    {[chat_type |-> c.type, chat_id |-> c.id, name |-> c.id,
      last_message |-> LastMessageOf(log, c),
      unread_count |-> unread[c]] : c \in Chats}

ConversationList == ConversationsOf(srvLog, srvUnread)

Replace(bag, old, new) == (bag (-) SetToBag({old})) (+) SetToBag({new})

\* the code that runs when a REST call returns
ContinuationOf(r) ==
    r.op \o (IF r.phase = "ok" THEN ".then" ELSE ".catch")

unchangedConn ==
    /\ UNCHANGED <<ws, readyState, established, pongDue, reconnectAttempts,
                   isManuallyDisconnected, isConnecting, heartbeatInterval,
                   heartbeatTimeout, connectionTimeout, reconnectTimers,
                   manualTimers, token, isConnected, messageHandlers,
                   connectionHandlers, faulty, abnormalCloses, lastCode,
                   delay>>
    /\ invoked' = <<>>

\* ------------------------------------------------------------------------
\* Actions of the ChatProvider
\* ------------------------------------------------------------------------
SetCurrentChat(chat) ==
    /\ Len(selections) < MaxSelections
    /\ CommitStore(setCurrentChat(Store, chat))
    /\ selections' = Append(selections, chat)
    /\ lastOp' = "setCurrentChat"
    /\ lastArg' = chat
    /\ UNCHANGED <<inbound, srvLog, srvUnread, now, sendSeq>>
    /\ unchangedConn

SendMessage(content) ==
    /\ sendSeq < MaxSends
    /\ CommitStore(sendMessage(Store, content, sendSeq + 1, now))
    /\ sendSeq' = sendSeq + 1
    /\ lastOp' = "sendMessage"
    /\ lastArg' = currentChat
    /\ UNCHANGED <<inbound, srvLog, srvUnread, now, selections>>
    /\ unchangedConn

MarkConversationAsRead(chat) ==
    /\ CommitStore(markConversationAsRead(Store, chat.type, chat.id))
    /\ lastOp' = "markConversationAsRead"
    /\ lastArg' = chat
    /\ UNCHANGED <<inbound, srvLog, srvUnread, now, sendSeq, selections>>
    /\ unchangedConn

\* ws.onmessage with a `message` event: handleMessage
ReceiveMessage ==
    /\ inbound # <<>>
    /\ CommitStore(handleMessage(Store, Head(inbound)))
    /\ inbound' = Tail(inbound)
    /\ lastOp' = "handleMessage"
    /\ lastArg' = Head(inbound).about
    /\ UNCHANGED <<srvLog, srvUnread, now, sendSeq, selections>>
    /\ unchangedConn

\* a REST call returns: the code after its await runs
RestReturns(r) ==
    /\ BagIn(r, rest)
    /\ r.phase # "sent"
    /\ CommitStore(afterAwait([Store EXCEPT !.rest = @ (-) SetToBag({r})], r))
    /\ lastOp' = ContinuationOf(r)
    /\ lastArg' = ChatRef(r.chatType, r.chatId)
    /\ UNCHANGED <<inbound, srvLog, srvUnread, now, sendSeq, selections>>
    /\ unchangedConn

\* the clock advances
ClockTick ==
    /\ now < MaxClockTicks * ClockStepMs
    /\ now' = now + ClockStepMs
    /\ lastOp' = "clock"
    /\ lastArg' = NoChat
    /\ UNCHANGED <<currentChat, currentRoomRef, messages, conversations,
                   isLoading, error, typingUsers, onlineUsers, rooms,
                   wire, rest, inbound, srvLog, srvUnread,
                   sendSeq, selections>>
    /\ unchangedConn

\* the server reads the next frame: a send_message is stored under the
\* server's id and time and pushed back to the sender
ServerReads(shape) ==
    /\ wire # <<>>
    /\ LET f == Head(wire)
           chat == ChatRef(f.chat_type, f.chat_id)
           ev == MessageEvent(ServerId(Len(srvLog) + 1), Me, f.content, now,
                              chat, shape, f.seq)
       IN IF f.type = "send_message"
          THEN /\ Len(srvLog) < MaxLog
               /\ Len(inbound) < MaxInbound
               /\ srvLog' = Append(srvLog, ev)
               /\ inbound' = Append(inbound, ev)
          ELSE /\ shape = "typed"
               /\ UNCHANGED <<srvLog, inbound>>
    /\ wire' = Tail(wire)
    /\ lastOp' = "serverReads"
    /\ lastArg' = NoChat
    /\ UNCHANGED <<currentChat, currentRoomRef, messages, conversations,
                   isLoading, error, typingUsers, onlineUsers, rooms,
                   rest, srvUnread, now, sendSeq,
                   selections>>
    /\ unchangedConn

\* another user posts into a chat of this user: stored, counted as unread
\* for this user, and pushed
OtherUserSends(from, chat, content, shape) ==
    /\ from # Me
    /\ chat.type = "private" => chat.id = from
    /\ Len(srvLog) < MaxLog
    /\ Len(inbound) < MaxInbound
    /\ srvUnread[chat] < MaxUnread
    /\ LET ev == MessageEvent(ServerId(Len(srvLog) + 1), from, content, now,
                              chat, shape, 0)
       IN /\ srvLog' = Append(srvLog, ev)
          /\ inbound' = Append(inbound, ev)
    /\ srvUnread' = [srvUnread EXCEPT ![chat] = @ + 1]
    /\ lastOp' = "otherUserSends"
    /\ lastArg' = chat
    /\ UNCHANGED <<currentChat, currentRoomRef, messages, conversations,
                   isLoading, error, typingUsers, onlineUsers, rooms,
                   wire, rest, now, sendSeq, selections>>
    /\ unchangedConn

\* the server answers a REST request, or the request fails
RestServed(r, ok) ==
    /\ BagIn(r, rest)
    /\ r.phase = "sent"
    /\ LET chat == ChatRef(r.chatType, r.chatId)
       IN IF ok
          THEN /\ rest' = Replace(rest, r,
                       [r EXCEPT !.phase = "ok",
                                 !.convs = IF r.op = "getConversations"
                                           THEN ConversationList ELSE {},
                                 !.msgs = IF r.op = "getMessages"
                                          THEN HistoryOf(chat) ELSE <<>>])
               /\ srvUnread' = IF r.op = "markConversationAsRead"
                                  /\ chat \in Chats
                               THEN [srvUnread EXCEPT ![chat] = 0]
                               ELSE srvUnread
          ELSE /\ rest' = Replace(rest, r, [r EXCEPT !.phase = "fail"])
               /\ UNCHANGED srvUnread
    /\ lastOp' = "restServed"
    /\ lastArg' = NoChat
    /\ UNCHANGED <<currentChat, currentRoomRef, messages, conversations,
                   isLoading, error, typingUsers, onlineUsers, rooms,
                   wire, inbound, srvLog, now, sendSeq,
                   selections>>
    /\ unchangedConn


\* ------------------------------------------------------------------------
\* Initial states and specifications
\* ------------------------------------------------------------------------
ConnInit ==
    /\ ws = Null
    /\ readyState = [s \in Sockets |-> "CLOSED"]
    /\ established = [s \in Sockets |-> FALSE]
    /\ pongDue = [s \in Sockets |-> FALSE]
    /\ reconnectAttempts = 0
    /\ isManuallyDisconnected = FALSE
    /\ isConnecting = FALSE
    /\ heartbeatInterval = Off
    /\ heartbeatTimeout = Off
    /\ connectionTimeout = FALSE
    /\ reconnectTimers = 0
    /\ manualTimers = 0
    /\ token = TRUE
    /\ isConnected = FALSE
    /\ abnormalCloses = 0
    /\ lastCode = Null
    /\ delay = Null
    /\ messageHandlers = <<ChatHandler>>
    /\ connectionHandlers = <<ChatHandler>>
    /\ faulty = {}
    /\ invoked = <<>>
    /\ lastOp = "init"

\* the service after connect() and the open of its socket
ConnOpen ==
    /\ ws = 1
    /\ readyState = [s \in Sockets |-> IF s = 1 THEN "OPEN" ELSE "CLOSED"]
    /\ established = [s \in Sockets |-> s = 1]
    /\ pongDue = [s \in Sockets |-> FALSE]
    /\ reconnectAttempts = 0
    /\ isManuallyDisconnected = FALSE
    /\ isConnecting = FALSE
    /\ heartbeatInterval = HeartbeatIntervalSec
    /\ heartbeatTimeout = WatchdogSec
    /\ connectionTimeout = FALSE
    /\ reconnectTimers = 0
    /\ manualTimers = 0
    /\ token = TRUE
    /\ isConnected = TRUE
    /\ abnormalCloses = 0
    /\ lastCode = Null
    /\ delay = Null
    /\ messageHandlers = <<ChatHandler>>
    /\ connectionHandlers = <<ChatHandler>>
    /\ faulty = {}
    /\ invoked = <<>>
    /\ lastOp = "onopen"

\* the Store holds st, nothing has been sent or received
ChatAt(st, chosen) ==
    /\ currentChat = st.currentChat
    /\ currentRoomRef = st.currentRoomRef
    /\ messages = st.messages
    /\ conversations = st.conversations
    /\ isLoading = st.isLoading
    /\ error = st.error
    /\ typingUsers = st.typingUsers
    /\ onlineUsers = st.onlineUsers
    /\ rooms = st.rooms
    /\ wire = st.wire
    /\ rest = st.rest
    /\ inbound = <<>>
    /\ srvLog = <<>>
    /\ srvUnread = [c \in Chats |-> 0]
    /\ now = 0
    /\ sendSeq = 0
    /\ selections = chosen
    /\ lastArg = NoChat

\* initialState of the reducer
ChatInit == ChatAt(initialState, <<>>)

Init == ConnInit /\ ChatInit

Next ==
    \/ Connect
    \/ Disconnect
    \/ Reconnect
    \/ ReconnectTimerFires
    \/ ManualTimerFires
    \/ ConnectionTimeoutFires
    \/ \E s \in Sockets : SocketOpens(s)
    \/ \E s \in Sockets : SocketFails(s)
    \/ \E s \in Sockets, code \in {NormalClosure, NoStatusRcvd,
                                   AbnormalClosure, InternalError} :
           SocketCloses(s, code)
    \/ \E s \in Sockets : Pong(s)
    \/ Tick
    \/ HeartbeatFires
    \/ WatchdogFires

Spec == Init /\ [][Next]_vars

\* selecting chats on an open socket; wire keeps every frame written
RoomInit == ConnOpen /\ ChatInit

RoomNext ==
    \/ \E chat \in Chats \cup {NoChat} : SetCurrentChat(chat)
    \/ \E r \in BagToSet(rest), ok \in BOOLEAN : RestServed(r, ok)
    \/ \E r \in BagToSet(rest) : RestReturns(r)

SpecRoom == RoomInit /\ [][RoomNext]_vars

\* the events the routing filter is applied to: any sender, any chat of this
\* user, any shape
RouteEvents ==
    {ev \in {MessageEvent(ServerId(1), from, content, DedupWindowMs, chat,
                          shape, 0) :
                 from \in Users, content \in Contents, chat \in Chats,
                 shape \in Shapes} :
        (ev.chat_type = "private" /\ ev.from_user_id # Me)
            => ev.about.id = ev.from_user_id}

earlierMessage ==
    [id |-> ServerId(0), from_user_id |-> "B", content |-> "hi",
     created_at |-> 0]

\* one event arrives at a Store with any selection
RouteInit ==
    /\ ConnOpen
    /\ \E chat \in Chats \cup {NoChat}, ev \in RouteEvents,
          list \in {<<>>, <<earlierMessage>>} :
           /\ currentChat = chat
           /\ currentRoomRef = IF chat.type = "room" THEN chat.id ELSE Nil
           /\ messages = list
           /\ conversations = {}
           /\ isLoading = FALSE
           /\ error = Nil
           /\ typingUsers = <<>>
           /\ onlineUsers = {}
           /\ rooms = {}
           /\ wire = <<>>
           /\ rest = EmptyBag
           /\ inbound = <<ev>>
           /\ srvLog = <<ev>>
           /\ srvUnread = [c \in Chats |-> 0]
           /\ now = DedupWindowMs
           /\ sendSeq = 0
           /\ selections = <<chat>>
           /\ lastArg = NoChat

RouteNext ==
    \/ ReceiveMessage
    \/ \E r \in BagToSet(rest), ok \in BOOLEAN : RestServed(r, ok)
    \/ \E r \in BagToSet(rest) : RestReturns(r)

SpecRoute == RouteInit /\ [][RouteNext]_vars

\* a chat has just been selected on an open socket
SelectedInit ==
    /\ ConnOpen
    /\ \E chat \in Chats : ChatAt(setCurrentChat(initialState, chat), <<chat>>)

\* sending into the selected chat and reconciling the echoes
SendNext ==
    \/ \E content \in Contents : SendMessage(content)
    \/ ClockTick
    \/ \E shape \in Shapes : ServerReads(shape)
    \/ ReceiveMessage
    \/ \E r \in BagToSet(rest), ok \in BOOLEAN : RestServed(r, ok)
    \/ \E r \in BagToSet(rest) : RestReturns(r)

SpecSend == SelectedInit /\ [][SendNext]_vars

\* messages of other users arrive while a chat is selected
UnreadNext ==
    \/ \E chat \in Chats, shape \in Shapes :
           OtherUserSends("B", chat, "hi", shape)
    \/ ReceiveMessage
    \/ MarkConversationAsRead(currentChat)
    \/ \E r \in BagToSet(rest), ok \in BOOLEAN : RestServed(r, ok)
    \/ \E r \in BagToSet(rest) : RestReturns(r)

SpecUnread == SelectedInit /\ [][UnreadNext]_vars

\* the conversation list is loaded and shows the unread counts the server
\* holds; no chat is selected yet
MarkReadInit ==
    /\ ConnOpen
    /\ \E unread \in [Chats -> 0..MaxUnread] :
           /\ currentChat = NoChat
           /\ currentRoomRef = Nil
           /\ messages = <<>>
           /\ conversations = ConversationsOf(<<>>, unread)
           /\ isLoading = FALSE
           /\ error = Nil
           /\ typingUsers = <<>>
           /\ onlineUsers = {}
           /\ rooms = {}
           /\ wire = <<>>
           /\ rest = EmptyBag
           /\ inbound = <<>>
           /\ srvLog = <<>>
           /\ srvUnread = unread
           /\ now = 0
           /\ sendSeq = 0
           /\ selections = <<>>
           /\ lastArg = NoChat

\* conversations are marked as read, as the sidebar does on a click
MarkReadNext ==
    \/ \E chat \in Chats : MarkConversationAsRead(chat)
    \/ \E r \in BagToSet(rest), ok \in BOOLEAN : RestServed(r, ok)
    \/ \E r \in BagToSet(rest) : RestReturns(r)

SpecMarkRead == MarkReadInit /\ [][MarkReadNext]_vars


\* the connection manager while the credential comes and goes (login stores
\* it; logout, a failed session check and a 401 response remove it); the
\* heartbeat is left out, the closes it causes are among the socket events
AuthNext ==
    \/ Connect
    \/ Disconnect
    \/ Reconnect
    \/ ReconnectTimerFires
    \/ ManualTimerFires
    \/ ConnectionTimeoutFires
    \/ \E s \in Sockets : SocketOpens(s)
    \/ \E s \in Sockets : SocketFails(s)
    \/ \E s \in Sockets, code \in {NormalClosure, NoStatusRcvd,
                                   AbnormalClosure, InternalError} :
           SocketCloses(s, code)
    \/ \E b \in BOOLEAN : SetToken(b)

SpecAuth == Init /\ [][AuthNext]_vars


\* connect(), disconnect() and the events of the sockets only: in these
\* behaviours disconnect() is the only caller of close() on a live socket
ManualNext ==
    \/ Connect
    \/ Disconnect
    \/ ReconnectTimerFires
    \/ \E s \in Sockets : SocketOpens(s)
    \/ \E s \in Sockets : SocketFails(s)
    \/ \E s \in Sockets, code \in {NormalClosure, NoStatusRcvd,
                                   AbnormalClosure, InternalError} :
           SocketCloses(s, code)

SpecManual == Init /\ [][ManualNext]_vars


\* ------------------------------------------------------------------------
\* The reducer alone: ADD_MESSAGE and SET_MESSAGES applied to every payload
\* ------------------------------------------------------------------------
ListTimes == {0, ClockStepMs, DedupWindowMs}

\* optimistic messages of the user and confirmed messages of the server
Payloads ==
    {[id |-> TempId(n), from_user_id |-> Me, content |-> c, created_at |-> t] :
        n \in {1, 2}, c \in Contents, t \in ListTimes}
    \cup
    {[id |-> ServerId(n), from_user_id |-> u, content |-> c, created_at |-> t] :
        n \in {1, 2}, u \in {Me, "B"}, c \in Contents, t \in ListTimes}

\* a history page of the server: confirmed messages with distinct ids
Histories ==
    {h \in UNION {[1..k -> {p \in Payloads : ~startsWithTemp(p.id)}] :
                     k \in 0..MaxList} :
        \A i \in DOMAIN h, j \in DOMAIN h : i # j => h[i].id # h[j].id}

\* dispatch({type: 'ADD_MESSAGE', payload})
AddMessage(payload) ==
    /\ LET st == dispatch(Store, "ADD_MESSAGE", payload)
       IN /\ Len(st.messages) <= MaxList
          /\ CommitStore(st)
          /\ lastOp' = IF st = Store THEN "ADD_MESSAGE.duplicate"
                       ELSE IF Len(st.messages) <= Len(messages)
                       THEN "ADD_MESSAGE.replaced"
                       ELSE "ADD_MESSAGE.appended"
    /\ UNCHANGED <<inbound, srvLog, srvUnread, now, sendSeq, selections,
                   lastArg>>
    /\ unchangedConn

\* dispatch({type: 'SET_MESSAGES', payload: result.messages})
SetMessages(history) ==
    /\ CommitStore(dispatch(Store, "SET_MESSAGES", history))
    /\ lastOp' = "SET_MESSAGES"
    /\ UNCHANGED <<inbound, srvLog, srvUnread, now, sendSeq, selections,
                   lastArg>>
    /\ unchangedConn

ReduceInit == ConnOpen /\ ChatInit

ReduceNext ==
    \/ \E payload \in Payloads : AddMessage(payload)
    \/ \E history \in Histories : SetMessages(history)

SpecReduce == ReduceInit /\ [][ReduceNext]_vars


\* ------------------------------------------------------------------------
\* Typing indicators
\* ------------------------------------------------------------------------
\* typing events pushed by the server; chat_type may be missing, and a room
\* and a user may carry the same id
TypingEvents ==
    [user_id : Users \ {Me}, chat_id : {"R1", "B"},
     chat_type : {Nil, "room", "private"}, is_typing : BOOLEAN]

\* onmessage delivers a typing event to handleMessage
ReceiveTyping(data) ==
    /\ LET st == handleTyping(Store, data)
       IN /\ CommitStore(st)
          /\ lastOp' = IF st = Store THEN "typing.unchanged"
                       ELSE IF data.is_typing THEN "typing.added"
                       ELSE "typing.removed"
    /\ UNCHANGED <<inbound, srvLog, srvUnread, now, sendSeq, selections,
                   lastArg>>
    /\ unchangedConn

TypingInit == ConnOpen /\ ChatInit

TypingNext == \E data \in TypingEvents : ReceiveTyping(data)

SpecTyping == TypingInit /\ [][TypingNext]_vars


\* ------------------------------------------------------------------------
\* Frames of every kind arriving on the open socket
\* ------------------------------------------------------------------------
\* the text of a frame: well-formed JSON with a type tag and data, or not
RawFrame(type, data) == [wellFormed |-> TRUE, type |-> type, data |-> data]

Malformed == [wellFormed |-> FALSE, type |-> Nil, data |-> NoData]

ErrorTexts == {"denied"}

\* message events of another user for the open chat and for another chat;
\* the k-th stored message has id k
MessageFrames(k) ==
    {RawFrame("message",
              MessageEvent(ServerId(k), "B", "hi", now, chat, "both", 0)) :
        chat \in {currentChat, ChatRef("room", "R2")}}

OtherFrames ==
    {RawFrame("error", [message |-> t]) : t \in ErrorTexts}
    \cup {RawFrame("error", NoData), Malformed, RawFrame("bogus", NoData),
          RawFrame("conversation_updated", NoData),
          RawFrame("online_users", JsonArray({"B"})),
          RawFrame("typing", [user_id |-> "B", chat_id |-> "R1",
                              chat_type |-> "room", is_typing |-> TRUE])}

\* the server writes a frame to the socket; a pong only answers a ping
ServerPushes(raw) ==
    /\ Len(inbound) < MaxInbound
    /\ ws # Null /\ readyState[ws] = "OPEN"
    /\ raw.type = "pong" => pongDue[ws]
    /\ raw.type = "message" => Len(srvLog) < MaxLog
    /\ inbound' = Append(inbound, raw)
    /\ srvLog' = IF raw.type = "message"
                 THEN Append(srvLog, raw.data) ELSE srvLog
    /\ lastOp' = "serverPushes"
    /\ UNCHANGED <<currentChat, currentRoomRef, messages, conversations,
                   isLoading, error, typingUsers, onlineUsers, rooms, wire,
                   rest,
                   srvUnread, now, sendSeq, selections, lastArg>>
    /\ unchangedConn

\* the onmessage callback of the current socket runs for the next frame
OnMessage ==
    /\ inbound # <<>>
    /\ ws # Null /\ readyState[ws] \in {"OPEN", "CLOSING"}
    /\ LET raw == Head(inbound)
           r == onmessage([This EXCEPT !.pongDue[ws] =
                               IF raw.type = "pong" THEN FALSE ELSE @],
                          Store, raw)
       IN /\ CommitThis(r.c)
          /\ CommitStore(r.st)
    /\ inbound' = Tail(inbound)
    /\ lastOp' = reportOf(Head(inbound))
    /\ UNCHANGED <<token, abnormalCloses, lastCode>>
    /\ UNCHANGED <<srvLog, srvUnread, now, sendSeq, selections, lastArg>>

\* the socket is open and room R1 selected; either nothing has happened
\* since, or the first heartbeat went out and its pong is due
FramesInit ==
    /\ ConnOpen
    /\ ChatAt(setCurrentChat(initialState, ChatRef("room", "R1")),
              <<ChatRef("room", "R1")>>)

PingSentInit ==
    /\ ws = 1
    /\ readyState = [s \in Sockets |-> IF s = 1 THEN "OPEN" ELSE "CLOSED"]
    /\ established = [s \in Sockets |-> s = 1]
    /\ pongDue = [s \in Sockets |-> s = 1]
    /\ reconnectAttempts = 0
    /\ isManuallyDisconnected = FALSE
    /\ isConnecting = FALSE
    /\ heartbeatInterval = HeartbeatIntervalSec
    /\ heartbeatTimeout = WatchdogSec - HeartbeatIntervalSec
    /\ connectionTimeout = FALSE
    /\ reconnectTimers = 0
    /\ manualTimers = 0
    /\ token = TRUE
    /\ isConnected = TRUE
    /\ abnormalCloses = 0
    /\ lastCode = Null
    /\ delay = Null
    /\ messageHandlers = <<ChatHandler>>
    /\ connectionHandlers = <<ChatHandler>>
    /\ faulty = {}
    /\ invoked = <<>>
    /\ lastOp = "heartbeat"
    /\ ChatAt(setCurrentChat(initialState, ChatRef("room", "R1")),
              <<ChatRef("room", "R1")>>)

FramesNext ==
    \/ \E raw \in MessageFrames(Len(srvLog) + 1) \cup OtherFrames
                  \cup {RawFrame("pong", NoData)} : ServerPushes(raw)
    \/ OnMessage

SpecFrames == (FramesInit \/ PingSentInit) /\ [][FramesNext]_vars

\* ------------------------------------------------------------------------
\* The REST collaborator: every consumed call, answered or failing
\* ------------------------------------------------------------------------
\* a callback of the provider that only starts a REST call
Calls(st, op) ==
    /\ CommitStore(st)
    /\ lastOp' = op
    /\ lastArg' = NoChat
    /\ UNCHANGED <<inbound, srvLog, srvUnread, now, sendSeq, selections>>
    /\ unchangedConn

LoadConversations == Calls(loadConversations(Store), "loadConversations")

LoadRooms == Calls(loadRooms(Store), "loadRooms")

LoadOnlineUsers == Calls(loadOnlineUsers(Store), "loadOnlineUsers")

GetRoomOnlineCount(roomId) ==
    Calls(getRoomOnlineCount(Store, roomId), "getRoomOnlineCount")

\* the socket is open, room R1 has just been selected and a first message
\* sent into it: its optimistic entry is in the list and the history load
\* is in flight
RestInit ==
    /\ ConnOpen
    /\ LET st == sendMessage(setCurrentChat(initialState,
                                            ChatRef("room", "R1")),
                             "hi", 1, 0)
       IN /\ currentChat = st.currentChat
          /\ currentRoomRef = st.currentRoomRef
          /\ messages = st.messages
          /\ conversations = st.conversations
          /\ isLoading = st.isLoading
          /\ error = st.error
          /\ typingUsers = st.typingUsers
          /\ onlineUsers = st.onlineUsers
          /\ rooms = st.rooms
          /\ wire = st.wire
          /\ rest = st.rest
    /\ inbound = <<>>
    /\ srvLog = <<>>
    /\ srvUnread = [c \in Chats |-> 0]
    /\ now = 0
    /\ sendSeq = 1
    /\ selections = <<ChatRef("room", "R1")>>
    /\ lastArg = ChatRef("room", "R1")

RestNext ==
    \/ LoadConversations
    \/ LoadRooms
    \/ LoadOnlineUsers
    \/ \E r \in Rooms : GetRoomOnlineCount(r)
    \/ MarkConversationAsRead(currentChat)
    \/ \E r \in BagToSet(rest), ok \in BOOLEAN : RestServed(r, ok)
    \/ \E r \in BagToSet(rest) : RestReturns(r)

SpecRest == RestInit /\ [][RestNext]_vars

\* ------------------------------------------------------------------------
\* Rooms joined and left by hand as well as by selecting a chat
\* ------------------------------------------------------------------------
JoinRoom(roomId) ==
    /\ CommitStore(joinRoom(Store, roomId))
    /\ lastOp' = "joinRoom"
    /\ lastArg' = ChatRef("room", roomId)
    /\ UNCHANGED <<inbound, srvLog, srvUnread, now, sendSeq, selections>>
    /\ unchangedConn

LeaveRoom(roomId) ==
    /\ CommitStore(leaveRoom(Store, roomId))
    /\ lastOp' = "leaveRoom"
    /\ lastArg' = ChatRef("room", roomId)
    /\ UNCHANGED <<inbound, srvLog, srvUnread, now, sendSeq, selections>>
    /\ unchangedConn

HandleRoomClick(roomId) ==
    /\ Len(selections) < MaxSelections
    /\ CommitStore(handleRoomClick(Store, roomId))
    /\ selections' = Append(selections, ChatRef("room", roomId))
    /\ lastOp' = "handleRoomClick"
    /\ lastArg' = ChatRef("room", roomId)
    /\ UNCHANGED <<inbound, srvLog, srvUnread, now, sendSeq>>
    /\ unchangedConn

ManualRoomNext ==
    \/ \E chat \in {c \in Chats : c.type \in {"room", "private"}} :
           SetCurrentChat(chat)
    \/ \E r \in Rooms : JoinRoom(r)
    \/ \E r \in Rooms : LeaveRoom(r)
    \/ \E r \in Rooms : HandleRoomClick(r)
    \/ \E r \in BagToSet(rest) : RestServed(r, TRUE)
    \/ \E r \in BagToSet(rest) : RestReturns(r)

SpecManualRoom == RoomInit /\ [][ManualRoomNext]_vars

\* ------------------------------------------------------------------------
\* The timers of the service while the Store holds a chat
\* ------------------------------------------------------------------------
\* room R1 is open on an open socket: its history of one message and the
\* conversation list are loaded, B is online and typing
PopulatedStore ==
    LET R1 == ChatRef("room", "R1")
        s1 == setCurrentChat(initialState, R1)
        s2 == handleFrame(s1, RawFrame("typing",
                  [user_id |-> "B", chat_id |-> "R1", chat_type |-> "room",
                   is_typing |-> TRUE]))
        s3 == handleFrame(s2, RawFrame("online_users", JsonArray({"B"})))
        s4 == dispatch(s3, "SET_MESSAGES",
                  <<newMessage(MessageEvent(ServerId(1), "B", "hi", 0, R1,
                                            "both", 0))>>)
        s5 == dispatch(s4, "SET_CONVERSATIONS",
                  ConversationsOf(<<MessageEvent(ServerId(1), "B", "hi", 0,
                                                 R1, "both", 0)>>,
                                  [c \in Chats |-> 0]))
    IN [dispatch(s5, "SET_LOADING", FALSE) EXCEPT !.rest = EmptyBag]

TimersInit ==
    /\ ConnOpen
    /\ LET st == PopulatedStore
       IN /\ currentChat = st.currentChat
          /\ currentRoomRef = st.currentRoomRef
          /\ messages = st.messages
          /\ conversations = st.conversations
          /\ isLoading = st.isLoading
          /\ error = st.error
          /\ typingUsers = st.typingUsers
          /\ onlineUsers = st.onlineUsers
          /\ rooms = st.rooms
          /\ wire = st.wire
          /\ rest = st.rest
    /\ inbound = <<>>
    /\ srvLog = <<MessageEvent(ServerId(1), "B", "hi", 0,
                               ChatRef("room", "R1"), "both", 0)>>
    /\ srvUnread = [c \in Chats |-> 0]
    /\ now = 0
    /\ sendSeq = 0
    /\ selections = <<ChatRef("room", "R1")>>
    /\ lastArg = ChatRef("room", "R1")

\* presence and typing frames of the server
PresenceFrames ==
    {RawFrame("typing", [user_id |-> "B", chat_id |-> "R1",
                         chat_type |-> "room", is_typing |-> FALSE]),
     RawFrame("online_users", JsonArray({}))}

\* heartbeat, watchdog, connect timer and reconnect timers run and sockets
\* fail and open, interleaved with frames being handled
TimersNext ==
    \/ Tick
    \/ HeartbeatFires
    \/ WatchdogFires
    \/ ConnectionTimeoutFires
    \/ ReconnectTimerFires
    \/ \E s \in Sockets : SocketOpens(s)
    \/ \E s \in Sockets : SocketFails(s)
    \/ \E s \in Sockets, code \in {NoStatusRcvd, AbnormalClosure} :
           SocketCloses(s, code)
    \/ \E raw \in PresenceFrames : ServerPushes(raw)
    \/ OnMessage

SpecTimers == TimersInit /\ [][TimersNext]_vars

\* ------------------------------------------------------------------------
\* Own and foreign messages arriving in the open room
\* ------------------------------------------------------------------------
\* room R1 is open with one optimistic entry; further messages are sent,
\* stored by the server together with those of B, pushed in the order
\* stored and handled one frame at a time; the REST calls a handler starts
\* are answered, in any order, before the next event
RestIdle == rest = EmptyBag

OrderNext ==
    \/ RestIdle /\ \E content \in Contents : SendMessage(content)
    \/ RestIdle /\ ClockTick
    \/ RestIdle /\ ServerReads("typed")
    \/ RestIdle /\ OtherUserSends("B", ChatRef("room", "R1"), "hi", "typed")
    \/ RestIdle /\ ReceiveMessage
    \/ \E r \in BagToSet(rest) : RestServed(r, TRUE)
    \/ \E r \in BagToSet(rest) : RestReturns(r)

SpecOrder == RestInit /\ [][OrderNext]_vars

TypeOK ==
    /\ ws \in Sockets \cup {Null}
    /\ \A i \in DOMAIN messageHandlers : messageHandlers[i] \in Handlers
    /\ \A i \in DOMAIN connectionHandlers :
           connectionHandlers[i] \in Handlers
    /\ faulty \subseteq Handlers
    /\ \A i \in DOMAIN invoked : invoked[i] \in Handlers \cup {Uncaught}
    /\ reconnectAttempts \in 0..maxReconnectAttempts
    /\ reconnectTimers \in 0..MaxTimers

\* ------------------------------------------------------------------------
\* Properties of the connection manager
\* ------------------------------------------------------------------------
LiveSockets == {s \in Sockets : IsLive(readyState[s])}

CurrentLive == ws # Null /\ IsLive(readyState[ws])

SocketCreated ==
    \E s \in Sockets :
        readyState'[s] = "CONNECTING" /\ readyState[s] # "CONNECTING"

\* C1: at most one socket is CONNECTING or OPEN in every reachable state, and
\* a connect() call (explicit or from a timer) made while the current socket
\* is CONNECTING or OPEN creates no socket and changes no field of the
\* service or the Store (a timer call only consumes its own timer).
C1_SingleConnection ==
    /\ [](Cardinality(LiveSockets) <= 1)
    /\ [][(CurrentLive /\ lastOp' = "connect") => UNCHANGED connVars]_vars
    /\ [][(CurrentLive /\ lastOp' \in {"reconnectTimer", "manualTimer"})
            => UNCHANGED <<ws, readyState, established, pongDue,
                           reconnectAttempts, isManuallyDisconnected,
                           isConnecting, heartbeatInterval, heartbeatTimeout,
                           connectionTimeout, token, isConnected>>]_vars

\* connect() was the last call and the current socket is OPEN: connect()
\* itself only ever leaves a CONNECTING socket, so the call found it OPEN
C1_Witness ==
    /\ lastOp = "connect"
    /\ ws # Null
    /\ readyState[ws] = "OPEN"
    /\ heartbeatInterval # Off

\* C4 as stated: after exactly maxReconnectAttempts consecutive abnormal
\* closes the manager is terminal - handlers told false and no connect
\* attempt scheduled.
C4_Original ==
    abnormalCloses = maxReconnectAttempts
        => (~isConnected /\ reconnectTimers = 0)

\* C4 amended: the budget counts scheduled attempts. Every reconnect timer
\* that is scheduled consumes one unit of the counter; once the counter is
\* at maxReconnectAttempts a close or error event schedules nothing and
\* leaves the handlers told false; after maxReconnectAttempts consecutive
\* abnormal closes the counter is exhausted and the handlers have been told
\* false, although attempts scheduled earlier may still be pending; with no
\* timer pending only an explicit connect() creates a socket.
C4_ReconnectBound ==
    /\ [](abnormalCloses >= maxReconnectAttempts
            => (reconnectAttempts = maxReconnectAttempts /\ ~isConnected))
    /\ [][reconnectTimers' > reconnectTimers
            => /\ reconnectAttempts < maxReconnectAttempts
               /\ reconnectAttempts' - reconnectAttempts
                      = reconnectTimers' - reconnectTimers]_vars
    /\ [][(reconnectAttempts = maxReconnectAttempts
             /\ lastOp' \in {"onclose", "onerror"})
            => (reconnectTimers' = reconnectTimers /\ ~isConnected'
                /\ reconnectAttempts' = maxReconnectAttempts)]_vars
    /\ [][(reconnectTimers = 0 /\ manualTimers = 0 /\ lastOp' # "connect")
            => ~SocketCreated]_vars

\* the budget is exhausted after maxReconnectAttempts abnormal closes, every
\* scheduled attempt has fired and the last socket is closed
C4_Witness ==
    /\ abnormalCloses = maxReconnectAttempts
    /\ reconnectAttempts = maxReconnectAttempts
    /\ reconnectTimers = 0
    /\ manualTimers = 0
    /\ lastOp = "onerror"
    /\ ws # Null
    /\ readyState[ws] = "CLOSED"
    /\ ~isConnected

\* C5 as stated, in the form a finite run refutes: while a ping is
\* unanswered on the Open current socket the 45s watchdog is pending, so
\* that a missing pong ends in the forced close.
C5_Original ==
    (ws # Null /\ readyState[ws] = "OPEN" /\ pongDue[ws])
        => heartbeatTimeout # Off

\* ------------------------------------------------------------------------
\* Properties of the ChatProvider
\* ------------------------------------------------------------------------
Room(r) == ChatRef("room", r)
Private(u) == ChatRef("private", u)
JoinFrame(r) == Frame("join_room", Nil, r, Nil, 0)
LeaveFrame(r) == Frame("leave_room", Nil, r, Nil, 0)

\* the entry m of the visible list stands for the n-th send of this user
Represents(m, n) ==
    \/ m.id = TempId(n)
    \/ /\ ~startsWithTemp(m.id)
       /\ m.id.n \in DOMAIN srvLog
       /\ srvLog[m.id.n].seq = n

EntriesFor(n) == {i \in DOMAIN messages : Represents(messages[i], n)}

\* C2 (as stated): every message sent into the selected chat has exactly one
\* entry in the visible list, in every state after sendMessage returned
C2_Original ==
    \A n \in 1..sendSeq : Cardinality(EntriesFor(n)) = 1

\* the event is a server message that matches a temp_ entry of the list
EchoOfTemp(ev) ==
    /\ ~startsWithTemp(ev.id)
    /\ shouldAddMessage(currentChat, ev)
    /\ \E i \in DOMAIN messages : isTempOf(messages[i], ev)

\* C3 (as stated): processing the echo of a locally sent message removes the
\* temp_ entry and puts the confirmed entry in the list, length unchanged
C3_Original ==
    [][(lastOp' = "handleMessage" /\ inbound # <<>>
            /\ EchoOfTemp(Head(inbound)))
        => /\ \E i \in DOMAIN messages' : messages'[i].id = Head(inbound).id
           /\ \A i \in DOMAIN messages' :
                  ~isTempOf(messages'[i], Head(inbound))
           /\ Len(messages') = Len(messages)]_vars

RecipientOf(ev) == IF ev.from_user_id = Me THEN ev.about.id ELSE Me

\* the selected chat and the event are of one kind and name the same chat
Matches(chat, ev) ==
    /\ chat # NoChat
    /\ chat.type = ev.chat_type
    /\ IF ev.chat_type = "private"
       THEN chat.id \in {ev.from_user_id, RecipientOf(ev)}
       ELSE chat.id = ev.about.id

\* C6: an inbound message event is appended to the visible list if a chat is
\* selected and the event matches it by kind and id (private: sender or
\* recipient, room: room id, group: group id); otherwise the list is unchanged
C6_RoutingFilter ==
    [][(lastOp' = "handleMessage" /\ inbound # <<>>)
        => IF Matches(currentChat, Head(inbound))
           THEN messages' = Append(messages, newMessage(Head(inbound)))
           ELSE messages' = messages]_vars

C6_Witness ==
    /\ lastOp = "handleMessage"
    /\ currentChat = Room("R1")
    /\ lastArg = Room("R1")
    /\ messages = <<earlierMessage, newMessage(srvLog[1])>>

UnreadShown(chat) ==
    {conv.unread_count : conv \in {c \in conversations :
        c.chat_type = chat.type /\ c.chat_id = chat.id}}

\* C7 (as stated): once every response has been applied and the server holds
\* no unread message for the chat being viewed, the Store shows no unread
\* count for it
C7_Original ==
    (/\ BagCardinality(rest) = 0
     /\ inbound = <<>>
     /\ srvUnread[currentChat] = 0)
        => UnreadShown(currentChat) \subseteq {0}

\* rooms with a join_room in the log and no later leave_room
Held(log) ==
    {r \in Rooms :
        \E i \in DOMAIN log :
            /\ log[i] = JoinFrame(r)
            /\ \A j \in (i + 1)..Len(log) : log[j] # LeaveFrame(r)}

\* C8: at every point of the frames written by setCurrentChat calls at most
\* one room is joined and not left, it is the recorded room, and the calls
\* R1, R2, P write exactly join R1, leave R1, join R2, leave R2 and end with
\* no recorded room
C8_MembershipExclusive ==
    /\ \A k \in 0..Len(wire) : Cardinality(Held(SubSeq(wire, 1, k))) <= 1
    /\ Held(wire) = IF currentRoomRef = Nil THEN {} ELSE {currentRoomRef}
    /\ \A r1 \in Rooms, r2 \in Rooms, p \in Chats :
           (r1 # r2 /\ p.type # "room"
                /\ selections = <<Room(r1), Room(r2), p>>)
               => /\ wire = <<JoinFrame(r1), LeaveFrame(r1),
                              JoinFrame(r2), LeaveFrame(r2)>>
                  /\ currentRoomRef = Nil

C8_Witness ==
    /\ selections = <<Room("R1"), Room("R2"), Private("B")>>
    /\ wire = <<JoinFrame("R1"), LeaveFrame("R1"),
                JoinFrame("R2"), LeaveFrame("R2")>>
    /\ currentRoomRef = Nil
    /\ currentChat = Private("B")

\* C9: setCurrentChat(new) with recorded room p writes leave_room(p) iff p
\* exists and new is not that room, then join_room(new.id) iff new is a room,
\* and nothing else; the record becomes new.id for a room, empty otherwise
C9_SwitchIntents ==
    [][lastOp' = "setCurrentChat"
        => LET p == currentRoomRef
               new == lastArg'
               leave == IF p # Nil /\ new # Room(p)
                        THEN <<LeaveFrame(p)>> ELSE <<>>
               join == IF new.type = "room"
                       THEN <<JoinFrame(new.id)>> ELSE <<>>
           IN /\ wire' = wire \o leave \o join
              /\ currentRoomRef' = IF new.type = "room" THEN new.id ELSE Nil
      ]_vars

C9_Witness ==
    /\ lastOp = "setCurrentChat"
    /\ lastArg = Room("R2")
    /\ wire = <<JoinFrame("R1"), LeaveFrame("R1"), JoinFrame("R2")>>
    /\ currentRoomRef = "R2"

MarkReadCall(chat) ==
    [op |-> "markConversationAsRead", chatType |-> chat.type,
     chatId |-> chat.id, phase |-> "sent", convs |-> {}, msgs |-> <<>>]

C11_IdempotentMarkRead ==
    [][(/\ lastOp' \in {"markConversationAsRead",
                        "markConversationAsRead.then",
                        "markConversationAsRead.catch"}
        /\ UnreadShown(lastArg') \subseteq {0})
        => /\ UNCHANGED <<currentChat, currentRoomRef, messages,
                          conversations, isLoading, error, typingUsers,
                          onlineUsers, rooms, isConnected, wire>>
           /\ lastOp' = "markConversationAsRead"
                => rest' = rest (+) SetToBag({MarkReadCall(lastArg')})
           /\ (lastOp' = "markConversationAsRead" /\ lastOp = lastOp'
                    /\ lastArg = lastArg')
                => rest'[MarkReadCall(lastArg')] >= 2]_vars

C11_Witness ==
    /\ lastOp = "markConversationAsRead"
    /\ UnreadShown(lastArg) = {0}
    /\ BagIn(MarkReadCall(lastArg), rest)
    /\ rest[MarkReadCall(lastArg)] = 2
    /\ \E conv \in conversations : conv.unread_count > 0

C14_Original ==
    [][(lastOp' = "reconnectTimer" /\ isManuallyDisconnected)
        => /\ ~SocketCreated
           /\ LiveSockets' = LiveSockets
           /\ ws' = Null
           /\ isManuallyDisconnected']_vars

\* the close event of socket s is delivered by this step
CloseDelivered(s) ==
    /\ lastOp' \in {"onclose", "onerror"}
    /\ readyState[s] # "CLOSED"
    /\ readyState'[s] = "CLOSED"

\* C15 (as stated): when the close event of a socket that disconnect() closed
\* (under SpecManual: a socket that is CLOSING), or a close event with code
\* 1000, is delivered, no reconnect attempt is scheduled and the attempt
\* counter does not change
C15_Original ==
    [][\A s \in Sockets :
        (CloseDelivered(s)
            /\ (readyState[s] = "CLOSING" \/ lastCode' = NormalClosure))
        => /\ reconnectTimers' = reconnectTimers
           /\ reconnectAttempts' = reconnectAttempts]_vars

\* C16 (as stated): reconnect() resets the attempt counter and the
\* manual-disconnect flag, leaves no live socket and no heartbeat or connect
\* timer, and schedules connect(); when that connect() runs with a credential
\* present, exactly one live socket exists and it is the current one
C16_Original ==
    [][/\ lastOp' = "reconnect"
            => /\ reconnectAttempts' = 0
               /\ ~isManuallyDisconnected'
               /\ LiveSockets' = {}
               /\ ws' = Null
               /\ heartbeatInterval' = Off
               /\ heartbeatTimeout' = Off
               /\ ~connectionTimeout'
               /\ manualTimers' = manualTimers + 1
       /\ (lastOp' = "manualTimer" /\ token)
            => /\ CurrentLive'
               /\ Cardinality(LiveSockets') = 1]_vars

\* C17: when a socket reaches Open the attempt counter becomes 0, the 30s
\* ping interval and the 45s watchdog are armed afresh, the connect timer is
\* cleared and the handlers are told true; the budget is per outage: the
\* first abnormal close after an open schedules attempt number 1
C17_OpenResets ==
    [][/\ lastOp' = "onopen"
            => /\ reconnectAttempts' = 0
               /\ heartbeatInterval' = HeartbeatIntervalSec
               /\ heartbeatTimeout' = WatchdogSec
               /\ ~connectionTimeout'
               /\ ~isConnecting'
               /\ isConnected'
       /\ (lastOp = "onopen" /\ lastOp' = "onclose"
                /\ lastCode' # NormalClosure)
            => /\ reconnectAttempts' = 1
               /\ reconnectTimers' = reconnectTimers + 1]_vars

\* a socket opened after failed attempts: an attempt scheduled during the
\* outage is still pending, the counter is back at 0
C17_Witness ==
    /\ lastOp = "onopen"
    /\ reconnectTimers > 0
    /\ reconnectAttempts = 0
    /\ heartbeatInterval = HeartbeatIntervalSec
    /\ heartbeatTimeout = WatchdogSec
    /\ isConnected

\* the list holds a message that makes payload a duplicate: the same id, or
\* the same content and sender less than 3000 ms away
HoldsDuplicateOf(payload) ==
    \E i \in 1..Len(messages) :
        \/ messages[i].id = payload.id
        \/ /\ messages[i].content = payload.content
           /\ messages[i].from_user_id = payload.from_user_id
           /\ messages[i].created_at - payload.created_at < DedupWindowMs
           /\ payload.created_at - messages[i].created_at < DedupWindowMs

\* C18: for every list the reducer can hold and every message, ADD_MESSAGE
\* returns the Store unchanged exactly when the list holds a duplicate of the
\* message; otherwise the message becomes the last entry and no other field
\* of the Store changes; applying ADD_MESSAGE a second time with the same
\* message changes nothing
C18_DedupExact ==
    \A payload \in Payloads :
        LET once == dispatch(Store, "ADD_MESSAGE", payload)
            twice == dispatch(once, "ADD_MESSAGE", payload)
        IN /\ (once = Store) <=> HoldsDuplicateOf(payload)
           /\ ~HoldsDuplicateOf(payload)
                => /\ once.messages[Len(once.messages)] = payload
                   /\ [once EXCEPT !.messages = messages] = Store
           /\ twice = once

\* two messages with the same content and sender exactly 3000 ms apart have
\* both been added, and a further message has been discarded as a duplicate
C18_Witness ==
    /\ lastOp = "ADD_MESSAGE.duplicate"
    /\ Len(messages) = 2
    /\ messages[1].id # messages[2].id
    /\ messages[1].content = messages[2].content
    /\ messages[1].from_user_id = messages[2].from_user_id
    /\ messages[2].created_at - messages[1].created_at = DedupWindowMs

\* C19: the list never holds an optimistic (temp_) message followed by a
\* confirmed message with the same content and sender: when a confirmed
\* message is accepted, every optimistic message with its content and sender
\* that was in the list is removed by the same step
C19_NoTempWithConfirmed ==
    \A i \in 1..Len(messages), j \in 1..Len(messages) :
        (i < j /\ startsWithTemp(messages[i].id)
               /\ ~startsWithTemp(messages[j].id))
            => ~(/\ messages[i].content = messages[j].content
                 /\ messages[i].from_user_id = messages[j].from_user_id)

\* a confirmed message has replaced an optimistic one of the same content
\* and sender, next to a message that was left alone
C19_Witness ==
    /\ lastOp = "ADD_MESSAGE.replaced"
    /\ Len(messages) = 2
    /\ startsWithTemp(messages[1].id)
    /\ ~startsWithTemp(messages[2].id)
    /\ messages[2].from_user_id = Me
    /\ messages[1].content # messages[2].content
    /\ messages[2].created_at = DedupWindowMs
    /\ messages[1].created_at = 0

\* the collection holds an entry for the user and chat id of the event
TypingShown(data) ==
    \E i \in 1..Len(typingUsers) :
        /\ typingUsers[i].userId = data.user_id
        /\ typingUsers[i].chatId = data.chat_id

\* C20: no two entries of the typing collection share a user and a chat id;
\* a start-typing event for an entry already shown leaves the Store
\* unchanged, and otherwise appends one entry; a stop-typing event removes
\* the entry and keeps the others in order, changes nothing when no entry is
\* shown, and changes nothing when applied a second time
C20_TypingSet ==
    /\ \A i \in 1..Len(typingUsers), j \in 1..Len(typingUsers) :
           (/\ typingUsers[i].userId = typingUsers[j].userId
            /\ typingUsers[i].chatId = typingUsers[j].chatId) => i = j
    /\ \A data \in TypingEvents :
           LET once == handleTyping(Store, data)
               twice == handleTyping(once, data)
               same(user) == /\ user.userId = data.user_id
                             /\ user.chatId = data.chat_id
           IN /\ [once EXCEPT !.typingUsers = typingUsers] = Store
              /\ twice = once
              /\ (data.is_typing /\ TypingShown(data)) => once = Store
              /\ (data.is_typing /\ ~TypingShown(data))
                    => /\ Len(once.typingUsers) = Len(typingUsers) + 1
                       /\ SubSeq(once.typingUsers, 1, Len(typingUsers))
                              = typingUsers
                       /\ same(once.typingUsers[Len(once.typingUsers)])
              /\ ~data.is_typing
                    => /\ once.typingUsers =
                              SelectSeq(typingUsers, LAMBDA u : ~same(u))
                       /\ ~TypingShown(data) => once = Store

\* an event that changes nothing (a start-typing event for an entry already
\* shown, or a stop-typing event for one that is not) has been handled while
\* the collection holds two entries of one user
C20_Witness ==
    /\ lastOp = "typing.unchanged"
    /\ Len(typingUsers) = 2
    /\ typingUsers[1].userId = typingUsers[2].userId
    /\ typingUsers[1].chatId # typingUsers[2].chatId

RefreshCall ==
    [op |-> "getConversations", chatType |-> Nil, chatId |-> Nil,
     phase |-> "sent", convs |-> {}, msgs |-> <<>>]

\* C21 (as stated): handling an inbound message event issues one
\* getConversations call whether or not the event was routed, and issues a
\* mark-read for the conversation of the event exactly when the event matches
\* the open chat
C21_Original ==
    [][(lastOp' = "handleMessage" /\ inbound # <<>>)
        => LET ev == Head(inbound)
           IN rest' = rest (+) SetToBag({RefreshCall})
                           (+) (IF Matches(currentChat, ev)
                                THEN SetToBag({MarkReadCall(ev.about)})
                                ELSE EmptyBag)]_vars

\* the fields of the connection manager and its timers
ConnectionState ==
    <<ws, readyState, isConnected, reconnectAttempts, isManuallyDisconnected,
      isConnecting, heartbeatInterval, heartbeatTimeout, connectionTimeout,
      reconnectTimers, manualTimers>>

\* C22: handling a server-sent error event sets the error field of the Store
\* to the message of the event; no other Store field, no REST call, no frame
\* written, and nothing of the connection (socket, isConnected, attempt
\* counter, manual flag, timers) changes
C22_ErrorEvent ==
    [][(lastOp' = "onmessage" /\ inbound # <<>>
            /\ Head(inbound).type = "error"
            /\ Head(inbound).data # NoData)
        => /\ error' = Head(inbound).data.message
           /\ UNCHANGED <<currentChat, currentRoomRef, messages,
                          conversations, isLoading, typingUsers,
                          onlineUsers, rooms, wire, rest>>
           /\ UNCHANGED ConnectionState]_vars

\* an error event has been handled while a ping was unanswered and a REST
\* call was in flight
C22_Witness ==
    /\ lastOp = "onmessage"
    /\ error \in ErrorTexts
    /\ isConnected
    /\ ws # Null /\ readyState[ws] = "OPEN" /\ pongDue[ws]
    /\ heartbeatTimeout # Off
    /\ BagCardinality(rest) > 0

RestOps ==
    {"getConversations", "getMessages", "getRooms", "getOnlineUsers",
     "markConversationAsRead", "getRoomOnlineCount"}

\* the calls whose catch block dispatches SET_ERROR
SurfacedOps ==
    {"getConversations", "getMessages", "getRooms", "getOnlineUsers"}

\* what a failed REST call must leave alone: the local state already applied
\* and the connection
FailureKeeps ==
    /\ UNCHANGED <<currentChat, currentRoomRef, messages, conversations,
                   typingUsers, onlineUsers, rooms, wire>>
    /\ UNCHANGED ConnectionState

\* C23 (as stated): every failure of a consumed REST call puts its error
\* into the error field of the Store, and changes neither the connection nor
\* the local state already applied
C23_Original ==
    [][\A op \in RestOps :
           lastOp' = op \o ".catch" => error' = op /\ FailureKeeps]_vars

\* C23 (amended): a failure of getConversations, getMessages, getRooms or
\* getOnlineUsers puts its error into the error field of the Store; a failure
\* of markConversationAsRead or getRoomOnlineCount is only logged and leaves
\* the error field as it was (getRoomOnlineCount answers 0); no failure
\* changes the connection or rolls back messages, conversations, rooms,
\* online users or an optimistic entry
C23_RestFailure ==
    [][\A op \in RestOps :
           lastOp' = op \o ".catch"
           => /\ error' = IF op \in SurfacedOps THEN op ELSE error
              /\ FailureKeeps]_vars

\* a mark-read has failed after a failed history load was surfaced, with an
\* optimistic entry in the list
C23_Witness ==
    /\ lastOp = "markConversationAsRead.catch"
    /\ error = "getMessages"
    /\ \E i \in DOMAIN messages : startsWithTemp(messages[i].id)

\* C24: a frame that is malformed JSON or carries an unknown type tag is
\* logged and dropped: the step that handles it changes no field of the
\* Store, starts no REST call, writes no frame, and leaves the connection,
\* the reconnect counter, the pending pong and the heartbeat timers as they
\* were; the frame is consumed and the callback still runs for the frames
\* behind it
C24_DecodeFailureDropped ==
    [][lastOp' \in {"onmessage.catch", "onmessage.default"}
        => /\ UNCHANGED <<currentChat, currentRoomRef, messages,
                          conversations, isLoading, error, typingUsers,
                          onlineUsers, rooms, wire, rest>>
           /\ UNCHANGED ConnectionState
           /\ UNCHANGED <<pongDue, established>>
           /\ inbound' = Tail(inbound)
           /\ ws' # Null /\ readyState'[ws'] = "OPEN"]_vars

\* a malformed frame has been dropped while a pong was due, and a message
\* frame behind it waits on the open socket
C24_Witness ==
    /\ lastOp = "onmessage.catch"
    /\ inbound # <<>> /\ Head(inbound).type = "message"
    /\ ws # Null /\ readyState[ws] = "OPEN" /\ pongDue[ws]
    /\ isConnected

\* C25 (as stated): a manual joinRoom or leaveRoom call leaves the record of
\* the currently joined room as it was
C25_Original ==
    [][lastOp' \in {"joinRoom", "leaveRoom"}
        => currentRoomRef' = currentRoomRef]_vars

\* C26 (as stated): after any interleaving of setCurrentChat, joinRoom,
\* leaveRoom and the sidebar's room click on an open socket, the recorded
\* room is exactly the set of rooms joined and not left since: no room or one
C26_Original ==
    Held(wire) = IF currentRoomRef = Nil THEN {} ELSE {currentRoomRef}

\* C27: the timer for reconnect attempt k (1 <= k <= 5) is set to
\* min(3000 * 2^(k-1), 30000) ms, that is 3000, 6000, 12000, 24000, 30000:
\* the delay doubles per attempt until the cap, never decreases with k and
\* never exceeds 30000
C27_Backoff ==
    /\ delay # Null
           => /\ reconnectAttempts \in 1..maxReconnectAttempts
              /\ delay = <<3000, 6000, 12000, 24000, 30000>>[reconnectAttempts]
    /\ \A k \in 1..(maxReconnectAttempts - 1) :
           /\ backoff(k) <= backoff(k + 1)
           /\ backoff(k + 1) \in {2 * backoff(k), MaxReconnectDelay}
           /\ backoff(k + 1) <= MaxReconnectDelay

\* the fifth attempt has just been scheduled, at the capped delay
C27_Witness ==
    /\ reconnectAttempts = maxReconnectAttempts
    /\ delay = MaxReconnectDelay
    /\ reconnectTimers > 0

\* the service after socket s has gone CLOSED, as its error and close events
\* find it
Closed(c, s) ==
    [c EXCEPT !.readyState[s] = "CLOSED", !.established[s] = FALSE,
              !.pongDue[s] = FALSE]

\* the callback of the 10s connect timer, for a socket still CONNECTING
connectionTimeoutCallback(c) ==
    handleConnectionError(wsClose([c EXCEPT !.connectionTimeout = FALSE],
                                  c.ws))

\* r is c after the reconnect decision: heartbeat stopped, Store told false,
\* and one attempt scheduled iff the manual flag is clear and budget is left
Decided(c, r) ==
    /\ r.heartbeatInterval = Off /\ r.heartbeatTimeout = Off
    /\ ~r.connectionTimeout
    /\ ~r.isConnected
    /\ r.isManuallyDisconnected = c.isManuallyDisconnected
    /\ IF ~c.isManuallyDisconnected
          /\ c.reconnectAttempts < maxReconnectAttempts
       THEN /\ r.reconnectAttempts = c.reconnectAttempts + 1
            /\ r.reconnectTimers = c.reconnectTimers + 1
       ELSE /\ r.reconnectAttempts = c.reconnectAttempts
            /\ r.reconnectTimers = c.reconnectTimers

\* the error handler, the close handler for an abnormal code and the connect
\* timer each take the reconnect decision
SameReconnectDecision ==
    /\ \A s \in Sockets :
           readyState[s] # "CLOSED"
               => /\ Decided(This, onerror(Closed(This, s)))
                  /\ \A code \in {NoStatusRcvd, AbnormalClosure,
                                  InternalError} :
                         Decided(This, onclose(Closed(This, s), code))
    /\ (connectionTimeout /\ ws # Null /\ readyState[ws] = "CONNECTING")
           => Decided(This, connectionTimeoutCallback(This))

\* the fields of the service other than the sockets' state
ServiceFields(c) ==
    <<c.ws, c.reconnectAttempts, c.isManuallyDisconnected, c.isConnecting,
      c.heartbeatInterval, c.heartbeatTimeout, c.connectionTimeout,
      c.reconnectTimers, c.manualTimers, c.isConnected, c.delay>>

\* the connect timer leaves the service as an error event of the socket does
TimeoutLikeError ==
    (connectionTimeout /\ ws # Null /\ readyState[ws] = "CONNECTING")
        => ServiceFields(connectionTimeoutCallback(This))
               = ServiceFields(onerror(Closed(This, ws)))

\* C28 (as stated): a socket error event, an abnormal close event and the
\* connect timeout with the socket still CONNECTING take the same reconnect
\* decision (heartbeat stopped, handlers told false, one attempt scheduled
\* iff the manual flag is clear and budget is left), and the connect timeout
\* leaves the service in the state a socket error leaves it in
C28_Original ==
    SameReconnectDecision /\ TimeoutLikeError

TimerSteps == {"heartbeat", "watchdog", "connectionTimeout", "reconnectTimer"}

\* C29: a heartbeat tick, a watchdog expiry, a connect-timer expiry and a
\* reconnect timer firing change only the connection (socket, counter, flags,
\* timers, Store isConnected): across such a step the Store's messages,
\* conversations, currentChat, typingUsers and onlineUsers, and with them the
\* room record, the error field and the frames waiting, are unchanged
C29_TimersLeaveChat ==
    [][lastOp' \in TimerSteps
        => UNCHANGED <<messages, conversations, currentChat, typingUsers,
                       onlineUsers, currentRoomRef, rooms, error, isLoading,
                       inbound>>]_vars

\* the reconnect timer has fired and created a socket while the Store holds
\* the open chat, its message, the conversation list, B typing and online
C29_Witness ==
    /\ lastOp = "reconnectTimer"
    /\ ws # Null /\ readyState[ws] = "CONNECTING"
    /\ ~isConnected
    /\ currentChat = ChatRef("room", "R1")
    /\ messages # <<>> /\ conversations # {}
    /\ typingUsers # <<>> /\ onlineUsers # {}

\* the confirmed entries of the list are in the order the server stored and
\* pushed them (the k-th stored message has id k)
InArrivalOrder ==
    \A i \in DOMAIN messages, j \in DOMAIN messages :
        (i < j /\ ~startsWithTemp(messages[i].id)
               /\ ~startsWithTemp(messages[j].id))
            => messages[i].id.n < messages[j].id.n

\* the entries of the list that are still in it after the step
Remaining ==
    SelectSeq(messages,
              LAMBDA m : \E k \in DOMAIN messages' : messages'[k] = m)

\* C30: frames are handled one at a time in arrival order: a handling step
\* consumes exactly the frame at the head of the stream and either leaves the
\* list alone or appends that frame's message at its end, removing at most
\* optimistic entries and keeping the order of all entries that remain; so
\* the confirmed messages of the list are always in the order their frames
\* arrived
C30_ArrivalOrder ==
    /\ []InArrivalOrder
    /\ [][(lastOp' = "handleMessage" /\ inbound # <<>>)
           => /\ inbound' = Tail(inbound)
              /\ messages' \in {messages,
                                Append(Remaining,
                                       newMessage(Head(inbound)))}
              /\ \A i \in DOMAIN messages :
                     (\A k \in DOMAIN messages' : messages'[k] # messages[i])
                         => startsWithTemp(messages[i].id)]_vars

\* an echo has been promoted past an optimistic entry that remains, and a
\* message of B has arrived after it: the list holds the remaining optimistic
\* entry, the promoted message and B's message, in that order
C30_Witness ==
    /\ lastOp = "handleMessage"
    /\ Len(messages) = 3
    /\ startsWithTemp(messages[1].id)
    /\ ~startsWithTemp(messages[2].id) /\ messages[2].from_user_id = Me
    /\ ~startsWithTemp(messages[3].id) /\ messages[3].from_user_id = "B"

\* -------------------------------------------------------------------------
\* Sending while the connection comes and goes
\* -------------------------------------------------------------------------

\* ChatProvider.sendMessage with the user of the AuthContext: authUser is
\* authUserRef.current || authState.user, Nil when nobody is signed in
sendMessageAs(st, authUser, content, n, at) ==
    IF st.currentChat = NoChat \/ authUser = Nil
    THEN st
    ELSE sendMessage(st, content, n, at)

AuthUsers == {Nil, Me}

SendMessageAs(authUser, content) ==
    /\ sendSeq < MaxSends
    /\ CommitStore(sendMessageAs(Store, authUser, content, sendSeq + 1, now))
    /\ sendSeq' = sendSeq + 1
    /\ lastOp' = IF currentChat = NoChat \/ authUser = Nil
                 THEN "sendMessage.return" ELSE "sendMessage"
    /\ lastArg' = currentChat
    /\ UNCHANGED <<inbound, srvLog, srvUnread, now, selections>>
    /\ unchangedConn

\* the socket is open; no chat is selected yet, or room R1 has been selected
ComposeInit ==
    /\ ConnOpen
    /\ \/ ChatInit
       \/ ChatAt(setCurrentChat(initialState, ChatRef("room", "R1")),
                 <<ChatRef("room", "R1")>>)

ComposeNext ==
    \/ \E authUser \in AuthUsers, content \in Contents :
           SendMessageAs(authUser, content)
    \/ SetCurrentChat(ChatRef("room", "R1"))
    \/ ClockTick
    \/ ServerReads("typed")
    \/ \E s \in Sockets : SocketCloses(s, InternalError)
    \/ ReconnectTimerFires
    \/ \E s \in Sockets : SocketOpens(s)

SpecCompose == ComposeInit /\ [][ComposeNext]_vars

\* C31: a sendMessage step with a selected chat and a signed-in user appends
\* the optimistic message (temp_ id, sender = current user) to the list and
\* writes exactly one send_message frame with the chat's kind and id and the
\* content; a sendMessage step without a selected chat or without a user
\* leaves the list and the wire alone
C31_Original ==
    [][/\ lastOp' = "sendMessage"
          => \E content \in Contents :
                 /\ messages' = Append(messages,
                        [id |-> TempId(sendSeq'), from_user_id |-> Me,
                         content |-> content, created_at |-> now])
                 /\ wire' = Append(wire,
                        Frame("send_message", currentChat.type,
                              currentChat.id, content, sendSeq'))
       /\ lastOp' = "sendMessage.return"
          => UNCHANGED <<messages, wire>>]_vars

\* the send_message frame of the n-th sendMessage was written to the socket:
\* it is still on the wire or the server has read it
Written(n) ==
    \/ \E i \in DOMAIN wire :
           wire[i].type = "send_message" /\ wire[i].seq = n
    \/ \E i \in DOMAIN srvLog : srvLog[i].seq = n

\* C38: every optimistic (temp_) entry of the visible list belongs to a
\* send_message frame that was written to the socket
C38_Original ==
    \A i \in DOMAIN messages :
        startsWithTemp(messages[i].id) => Written(messages[i].id.n)

\* -------------------------------------------------------------------------
\* Unread counts of the conversation list
\* -------------------------------------------------------------------------

\* every conversation has unread messages, one message of B is stored for
\* R1, and the Store holds the server's list; no chat is selected
AckInit ==
    /\ ConnOpen
    /\ \E unread \in [Chats -> 1..MaxUnread] :
           LET log == <<MessageEvent(ServerId(1), "B", "hi", 0,
                                     ChatRef("room", "R1"), "both", 0)>>
           IN /\ currentChat = NoChat
              /\ currentRoomRef = Nil
              /\ messages = <<>>
              /\ conversations = ConversationsOf(log, unread)
              /\ isLoading = FALSE
              /\ error = Nil
              /\ typingUsers = <<>>
              /\ onlineUsers = {}
              /\ rooms = {}
              /\ wire = <<>>
              /\ rest = EmptyBag
              /\ inbound = <<>>
              /\ srvLog = log
              /\ srvUnread = unread
              /\ now = 0
              /\ sendSeq = 0
              /\ selections = <<>>
              /\ lastArg = NoChat

\* the user acknowledges conversations and the list is refreshed; nobody
\* posts, so the server's counters change only when it serves a mark-read
AckNext ==
    \/ \E chat \in {ChatRef("room", "R1"), ChatRef("room", "R2")} :
           MarkConversationAsRead(chat)
    \/ LoadConversations
    \/ \E r \in BagToSet(rest), ok \in BOOLEAN : RestServed(r, ok)
    \/ \E r \in BagToSet(rest) : RestReturns(r)

SpecAck == AckInit /\ [][AckNext]_vars

ConversationOf(list, chat) ==
    {conv \in list : conv.chat_type = chat.type /\ conv.chat_id = chat.id}

\* the count of the conversation of chat goes from a positive value to 0
ResetOf(chat) ==
    /\ \E conv \in ConversationOf(conversations, chat) : conv.unread_count > 0
    /\ \E conv \in ConversationOf(conversations', chat) : conv.unread_count = 0

\* C32: unread counts are never negative; the count of a conversation goes
\* to 0 only when the acknowledgment of that conversation completes, or when
\* a refresh installs the list of the server after the server has processed
\* an acknowledgment of that conversation; the completion of an
\* acknowledgment leaves every other conversation of the list as it was and
\* changes nothing but the count of its own
C32_UnreadCounts ==
    /\ [](\A conv \in conversations : conv.unread_count >= 0)
    /\ [][\A chat \in Chats :
              /\ ResetOf(chat)
                 => \/ /\ lastOp' = "markConversationAsRead.then"
                       /\ lastArg' = chat
                    \/ /\ lastOp' = "getConversations.then"
                       /\ srvUnread[chat] = 0
              /\ (lastOp' = "markConversationAsRead.then" /\ lastArg' = chat)
                 => /\ \A conv \in conversations \ ConversationOf(conversations, chat) :
                           conv \in conversations'
                    /\ \A conv \in ConversationOf(conversations, chat) :
                           [conv EXCEPT !.unread_count = 0] \in conversations'
                    /\ Cardinality(conversations') = Cardinality(conversations)]_vars

\* the acknowledgment of R1 has completed: R1 shows 0 while R2 still shows
\* its unread messages and R1 keeps its last message
C32_Witness ==
    /\ lastOp = "markConversationAsRead.then"
    /\ lastArg = ChatRef("room", "R1")
    /\ \E conv \in ConversationOf(conversations, ChatRef("room", "R1")) :
           conv.unread_count = 0 /\ conv.last_message = "hi"
    /\ \E conv \in ConversationOf(conversations, ChatRef("room", "R2")) :
           conv.unread_count > 0

\* -------------------------------------------------------------------------
\* The handler lists of the service
\* -------------------------------------------------------------------------

Registered(handlers) == {handlers[i] : i \in DOMAIN handlers}

\* onMessage(handler) / onConnection(handler): push
onMessage(c, handler) ==
    [c EXCEPT !.messageHandlers = Append(@, handler)]

onConnection(c, handler) ==
    [c EXCEPT !.connectionHandlers = Append(@, handler)]

\* the function onMessage / onConnection returns: indexOf, and splice(index,
\* 1) if the handler is found
unsubscribe(handlers, handler) ==
    IF handler \notin Registered(handlers)
    THEN handlers
    ELSE LET index == CHOOSE i \in DOMAIN handlers :
                          /\ handlers[i] = handler
                          /\ \A j \in DOMAIN handlers :
                                 handlers[j] = handler => i <= j
         IN SubSeq(handlers, 1, index - 1)
            \o SubSeq(handlers, index + 1, Len(handlers))

\* a component registers a handler it has not registered (the effect of
\* ChatProvider unsubscribes in its cleanup before it subscribes again)
SubscribeMessage(h) ==
    /\ h \notin Registered(messageHandlers)
    /\ Commit(onMessage(This, h))
    /\ lastOp' = "onMessage"
    /\ UNCHANGED <<abnormalCloses, lastCode, token>>

SubscribeConnection(h) ==
    /\ h \notin Registered(connectionHandlers)
    /\ Commit(onConnection(This, h))
    /\ lastOp' = "onConnection"
    /\ UNCHANGED <<abnormalCloses, lastCode, token>>

UnsubscribeMessage(h) ==
    /\ Commit([This EXCEPT !.messageHandlers = unsubscribe(@, h)])
    /\ lastOp' = "unsubscribeMessage"
    /\ UNCHANGED <<abnormalCloses, lastCode, token>>

UnsubscribeConnection(h) ==
    /\ Commit([This EXCEPT !.connectionHandlers = unsubscribe(@, h)])
    /\ lastOp' = "unsubscribeConnection"
    /\ UNCHANGED <<abnormalCloses, lastCode, token>>

\* a handler starts to throw on every call, or stops
HandlerFaults(h) ==
    /\ Commit([This EXCEPT !.faulty = IF h \in @ THEN @ \ {h}
                                      ELSE @ \cup {h}])
    /\ lastOp' = "handlerFaults"
    /\ UNCHANGED <<abnormalCloses, lastCode, token>>

HandlerFrames == {RawFrame("online_users", JsonArray({"B"}))}

HandlersNext ==
    \/ \E h \in Handlers : SubscribeMessage(h)
    \/ \E h \in Handlers : SubscribeConnection(h)
    \/ \E h \in Handlers : UnsubscribeMessage(h)
    \/ \E h \in Handlers : UnsubscribeConnection(h)
    \/ \E h \in Handlers : HandlerFaults(h)
    \/ Connect
    \/ \E s \in Sockets : SocketOpens(s)
    \/ \E s \in Sockets : SocketCloses(s, InternalError)
    \/ \E raw \in HandlerFrames : ServerPushes(raw)
    \/ OnMessage

SpecHandlers == Init /\ [][HandlersNext]_vars

\* the list without h, the other handlers in their order
Without(handlers, h) == SelectSeq(handlers, LAMBDA x : x # h)

\* C33: no exception of a handler ends a callback: a frame is handed to
\* every registered message handler in registration order and is consumed,
\* the provider's handler does its work whatever the handlers before it
\* threw; an open event is told to every registered connection handler in
\* order and the callback goes on to start the heartbeat; unsubscribing
\* removes exactly that handler, and no callback invokes a handler that is
\* not registered
C33_HandlersIsolated ==
    /\ [](\A i \in DOMAIN invoked : invoked[i] # Uncaught)
    /\ [][/\ (lastOp' = "onmessage" /\ inbound # <<>>)
             => /\ invoked' = messageHandlers
                /\ inbound' = Tail(inbound)
                /\ (ChatHandler \in Registered(messageHandlers) \ faulty)
                       => onlineUsers' = Head(inbound).data.items
          /\ lastOp' = "onopen"
             => /\ invoked' = connectionHandlers
                /\ heartbeatInterval' = HeartbeatIntervalSec
                /\ (ChatHandler \in Registered(connectionHandlers) \ faulty)
                       => isConnected'
          /\ \A i \in DOMAIN invoked' :
                 invoked'[i] \in Registered(messageHandlers)
                                 \cup Registered(connectionHandlers)
          /\ lastOp' = "unsubscribeMessage"
             => \E h \in Handlers :
                    /\ messageHandlers' = Without(messageHandlers, h)
                    /\ UNCHANGED connectionHandlers
          /\ lastOp' = "unsubscribeConnection"
             => \E h \in Handlers :
                    /\ connectionHandlers' = Without(connectionHandlers, h)
                    /\ UNCHANGED messageHandlers]_vars

\* h1 is registered before the provider's handler and throws; a frame has
\* been handed to h1 and then to the provider's handler, which stored the
\* online users
C33_Witness ==
    /\ lastOp = "onmessage"
    /\ invoked = <<"h1", ChatHandler>>
    /\ "h1" \in faulty
    /\ onlineUsers = {"B"}

\* C34: a socket that fails while connecting (error event and close event
\* of the same failure), with budget left and no manual disconnect, raises
\* the attempt counter by exactly 1 and leaves exactly one more reconnect
\* timer pending
C34_Original ==
    [][(/\ lastOp' = "onerror"
        /\ ~isManuallyDisconnected
        /\ reconnectAttempts < maxReconnectAttempts)
       => /\ reconnectAttempts' = reconnectAttempts + 1
          /\ reconnectTimers' = reconnectTimers + 1]_vars

\* C35: when the current socket is open and every other socket has
\* delivered its close event, the Store says connected and the heartbeat
\* interval and watchdog are armed: an event of a replaced socket has not
\* touched the new connection
C35_Original ==
    (/\ ws # Null
     /\ readyState[ws] = "OPEN"
     /\ \A s \in Sockets \ {ws} : readyState[s] = "CLOSED")
        => /\ isConnected
           /\ heartbeatInterval # Off
           /\ heartbeatTimeout # Off

\* C36: connect() called with a credential stored while no socket is
\* connecting or open creates a socket, so that afterwards the current
\* socket is connecting
C36_Original ==
    [][(/\ lastOp' \in {"connect", "reconnectTimer", "manualTimer"}
        /\ token
        /\ LiveSockets = {})
       => /\ ws' # Null
          /\ readyState'[ws'] = "CONNECTING"]_vars

WrittenInStep == {wire'[i] : i \in (Len(wire) + 1)..Len(wire')}

\* C39: an open socket has been asked to join the room that is the current
\* chat: the step that opens a socket while a room is selected writes
\* join_room for that room on it, and so does the step that selects a room
\* while the socket is open
C39_Original ==
    [][/\ (lastOp' = "onopen" /\ currentChat'.type = "room")
          => JoinFrame(currentChat'.id) \in WrittenInStep
       /\ (/\ lastOp' = "setCurrentChat"
           /\ currentChat'.type = "room"
           /\ ws # Null /\ readyState[ws] = "OPEN")
          => JoinFrame(currentChat'.id) \in WrittenInStep]_vars

\* -------------------------------------------------------------------------
\* Switching chats while histories load
\* -------------------------------------------------------------------------

\* B posts to the rooms, the user switches between them, the loads are
\* answered and their responses are applied in any order
SwitchNext ==
    \/ \E chat \in {ChatRef("room", "R1"), ChatRef("room", "R2")} :
           OtherUserSends("B", chat, "hi", "both")
    \/ \E chat \in {ChatRef("room", "R1"), ChatRef("room", "R2")} :
           SetCurrentChat(chat)
    \/ \E r \in BagToSet(rest) : RestServed(r, TRUE)
    \/ \E r \in BagToSet(rest) : RestReturns(r)
    \/ ReceiveMessage

SpecSwitch == RoomInit /\ [][SwitchNext]_vars

LoadPending == \E r \in BagToSet(rest) : r.op = "getMessages"

\* C37: once no load of a history is pending, every entry of the visible
\* list is a message of the chat that is selected
C37_Original ==
    (~LoadPending /\ currentChat # NoChat)
        => \A i \in DOMAIN messages :
               \E k \in DOMAIN srvLog :
                   /\ srvLog[k].id = messages[i].id
                   /\ srvLog[k].about = currentChat

====
